---- MODULE Spec2Model ----
(***************************************************************************)
(* A model of parmacl's command line parser (src/src/parser.rs).           *)
(*                                                                         *)
(* A line is a sequence of code points; a code point is a one-character    *)
(* string.  Texts (option codes, values, patterns) are sequences of code   *)
(* points.  Indices into the line are zero-based, as in the source.        *)
(***************************************************************************)
EXTENDS Integers, Sequences, FiniteSets, TLC

VARIABLES
    parser,       \* the Parser struct: configuration fields and the matcher list
    line,         \* the argument of the parse call
    phase,        \* where the call stands: "Idle" (not called yet), "Scanning",
                  \* "Finalizing" (the loop was left by break), "Done" (returned)
    char_idx,     \* the scan loop's char_idx
    parse_state,  \* the ParseState of the parse call
    args,         \* the Vec of results built by the parse call
    outcome,      \* what parse handed back to its caller
    last_call,    \* the call made last on the matcher list, and how it ended
    other         \* a second parse call on the same parser: its line, phase,
                  \* char_idx, ParseState, args and outcome

vars == <<parser, line, phase, char_idx, parse_state, args, outcome, last_call, other>>

----------------------------------------------------------------------------
(* Bounds *)

MaxLen == 4
MaxQuotedLen == 6
MaxMatchers == 2

----------------------------------------------------------------------------
(* Option<T> *)

NoneSet == [some |-> FALSE, v |-> {}]
NoneText == [some |-> FALSE, v |-> <<>>]
NoneTag == [some |-> FALSE, v |-> ""]
SomeV(x) == [some |-> TRUE, v |-> x]

NoChar == ""

----------------------------------------------------------------------------
(* Configuration defaults *)

DEFAULT_QUOTE_CHAR == "\""
DEFAULT_OPTION_ANNOUNCER_CHARS == {"-"}
DEFAULT_OPTION_CODES_CASE_SENSITIVE == FALSE
DEFAULT_MULTI_CHAR_OPTION_CODE_REQUIRES_DOUBLE_ANNOUNCER == FALSE
DEFAULT_OPTION_VALUE_ANNOUNCER_CHARS == {" "}
DEFAULT_OPTION_VALUES_CASE_SENSITIVE == FALSE
DEFAULT_OPTION_VALUES_CAN_START_WITH_OPTION_ANNOUNCER_CHAR == FALSE
DEFAULT_PARAMS_CASE_SENSITIVE == FALSE
DEFAULT_PARAMS_CAN_START_WITH_OPTION_ANNOUNCER_CHAR == FALSE
DEFAULT_EMBED_QUOTE_CHAR_WITH_DOUBLE == TRUE
DEFAULT_ESCAPE_CHAR == NoChar
DEFAULT_PARSE_TERMINATE_CHARS == {"<", ">", "|"}
DEFAULT_OPTION_HAS_VALUE == "IfPossible"

\* Matcher::new: every filter absent
NewMatcher(tag) ==
    [ tag |-> tag,
      arg_indices |-> NoneSet,
      option_or_parameter |-> NoneTag,
      option_indices |-> NoneSet,
      param_indices |-> NoneSet,
      option_codes |-> NoneSet,
      option_has_value |-> NoneTag,
      value_text |-> NoneText ]

\* Parser::new
NewParser ==
    [ quote_char |-> DEFAULT_QUOTE_CHAR,
      option_announcer_chars |-> DEFAULT_OPTION_ANNOUNCER_CHARS,
      option_codes_case_sensitive |-> DEFAULT_OPTION_CODES_CASE_SENSITIVE,
      multi_char_option_code_requires_double_announcer |->
          DEFAULT_MULTI_CHAR_OPTION_CODE_REQUIRES_DOUBLE_ANNOUNCER,
      option_value_announcer_chars |-> DEFAULT_OPTION_VALUE_ANNOUNCER_CHARS,
      option_values_case_sensitive |-> DEFAULT_OPTION_VALUES_CASE_SENSITIVE,
      option_values_can_start_with_option_announcer_char |->
          DEFAULT_OPTION_VALUES_CAN_START_WITH_OPTION_ANNOUNCER_CHAR,
      params_case_sensitive |-> DEFAULT_PARAMS_CASE_SENSITIVE,
      params_can_start_with_option_announcer_char |->
          DEFAULT_PARAMS_CAN_START_WITH_OPTION_ANNOUNCER_CHAR,
      embed_quote_char_with_double |-> DEFAULT_EMBED_QUOTE_CHAR_WITH_DOUBLE,
      escape_char |-> DEFAULT_ESCAPE_CHAR,
      parse_terminate_chars |-> DEFAULT_PARSE_TERMINATE_CHARS,
      matchers |-> <<>>,
      fallback_matcher |-> NewMatcher("") ]

\* A result refers to its matcher by position: FallbackRef is
\* &self.fallback_matcher, i >= 1 is &self.matchers[i - 1].
FallbackRef == 0
NoMatcher == -1

MatcherAt(self, ref) ==
    IF ref = FallbackRef THEN self.fallback_matcher ELSE self.matchers[ref]

----------------------------------------------------------------------------
(* Characters and text matching *)

\* char::is_whitespace
\* char::is_whitespace taking the space for an ordinary character
IsWhitespace_NotSpace(c) == c \in {"\t"}

\* char::is_whitespace on the code points the model uses
IsWhitespace(c) == c \in {" "}

\* to_lowercase on the code points the model uses
LowerChar(c) == IF c = "A" THEN "a" ELSE IF c = "B" THEN "b" ELSE c
Lower(text) == [i \in 1..Len(text) |-> LowerChar(text[i])]

\* RegexOrText::is_match for a literal text pattern
IsMatch(pattern, text, case_sensitive) ==
    IF case_sensitive THEN pattern = text ELSE Lower(pattern) = Lower(text)

----------------------------------------------------------------------------
(* The state of one parse call *)

\* the ParseState literal built at the head of parse
NewParseState ==
    [ arg_parse_state |-> "NotInArg",
      option_parse_state |-> "Announced",
      arg_line_char_idx |-> 0,
      start_idx |-> 0,
      option_announcer_char |-> NoChar,
      option_code |-> <<>>,
      option_value_announcer_is_ambiguous |-> FALSE,
      current_option_value_may_be_param |-> FALSE,
      value_quoted |-> FALSE,
      value_bldr |-> <<>>,
      arg_count |-> 0,
      option_count |-> 0,
      param_count |-> 0 ]

\* What an error hands to the caller beside its id.  Parser::create_error
\* puts one text (extra) into the message: a character index, a count, the
\* option code or the value text, or nothing
NoneNat == [some |-> FALSE, v |-> 0]

NoInfo ==
    [ line_char_idx |-> NoneNat, arg_index |-> NoneNat, option_index |-> NoneNat,
      param_index |-> NoneNat, code |-> NoneText, value_text |-> NoneText ]

\* A call frame: the ParseState, the args vector, and how the call stands:
\* status "Ok" (running), "Err" (an Err is being returned through ?) or
\* "Panic" (unreachable! was executed); info is what an
\* error carries; more is process_char's return value.
NewFrame ==
    [ ps |-> NewParseState, args |-> <<>>, status |-> "Ok", error |-> "",
      info |-> NoInfo, more |-> TRUE ]

\* extra = Some(&char_idx.to_string()), Some(&parse_state.line_len.to_string())
ExtraCharIdx(idx) == [NoInfo EXCEPT !.line_char_idx = SomeV(idx)]
\* extra = Some(&parse_state.option_code)
ExtraOptionCode(st) == [NoInfo EXCEPT !.code = SomeV(st.ps.option_code)]
\* extra = Some(&parse_state.value_bldr)
ExtraValue(st) == [NoInfo EXCEPT !.value_text = SomeV(st.ps.value_bldr)]
\* extra = Some(&parse_state.arg_count.to_string())
ExtraArgCount(st) == [NoInfo EXCEPT !.arg_index = SomeV(st.ps.arg_count)]

\* Parser::create_error followed by ?
CreateError(st, error_id, extra) ==
    [st EXCEPT !.status = "Err", !.error = error_id, !.info = extra]

\* ParseState::create_option_error followed by Err(error): the error is built
\* from the character index, arg_count, option_count and the option code
CreateOptionError(st, error_id, line_char_idx) ==
    [st EXCEPT !.status = "Err", !.error = error_id,
               !.info = [NoInfo EXCEPT !.line_char_idx = SomeV(line_char_idx),
                                       !.arg_index = SomeV(st.ps.arg_count),
                                       !.option_index = SomeV(st.ps.option_count),
                                       !.code = SomeV(st.ps.option_code)]]

\* ParseState::create_param_error: the error is built from the character
\* index, arg_count, option_count and the value text
CreateParamError(st, error_id, line_char_idx) ==
    [st EXCEPT !.status = "Err", !.error = error_id,
               !.info = [NoInfo EXCEPT !.line_char_idx = SomeV(line_char_idx),
                                       !.arg_index = SomeV(st.ps.arg_count),
                                       !.param_index = SomeV(st.ps.option_count),
                                       !.value_text = SomeV(st.ps.value_bldr)]]

\* unreachable!
Unreachable(st) == [st EXCEPT !.status = "Panic"]

\* Parser::create_option_termination_char_array
CreateOptionTerminationCharArray(self) ==
    {self.quote_char} \cup self.option_value_announcer_chars
        \cup self.parse_terminate_chars

----------------------------------------------------------------------------
(* Resolver *)

\* Parser::try_match_index
TryMatchIndex(index, matcher_indices) ==
    IF matcher_indices.some THEN index \in matcher_indices.v ELSE TRUE

\* Parser::try_match_option_or_parameter
TryMatchOptionOrParameter(value, matcher_value) ==
    IF matcher_value.some THEN matcher_value.v = value ELSE TRUE

\* Parser::try_match_option_code
TryMatchOptionCode(self, code, matcher_codes) ==
    IF matcher_codes.some
      THEN \E matcher_code \in matcher_codes.v :
               IsMatch(matcher_code, code, self.option_codes_case_sensitive)
      ELSE TRUE

\* Parser::try_match_value_text
TryMatchValueText(self, value_text, matcher_value_text) ==
    IF matcher_value_text.some
      THEN IsMatch(matcher_value_text.v, value_text, self.option_codes_case_sensitive)
      ELSE TRUE

\* Parser::try_match_option_excluding_value
TryMatchOptionExcludingValue(self, ps, matcher) ==
    /\ TryMatchIndex(ps.arg_count, matcher.arg_indices)
    /\ TryMatchOptionOrParameter("Option", matcher.option_or_parameter)
    /\ TryMatchIndex(ps.option_count, matcher.option_indices)
    /\ TryMatchOptionCode(self, ps.option_code, matcher.option_codes)

\* Parser::try_match_param
TryMatchParam(self, ps, matcher) ==
    /\ TryMatchIndex(ps.arg_count, matcher.arg_indices)
    /\ TryMatchOptionOrParameter("Parameter", matcher.option_or_parameter)
    /\ TryMatchIndex(ps.param_count, matcher.param_indices)
    /\ TryMatchValueText(self, ps.value_bldr, matcher.value_text)

\* matcher.option_has_value.as_ref().unwrap_or(&DEFAULT_OPTION_HAS_VALUE)
OptionHasValueOf(matcher) ==
    IF matcher.option_has_value.some THEN matcher.option_has_value.v
                                     ELSE DEFAULT_OPTION_HAS_VALUE

\* Parser::try_match_option
TryMatchOption(self, ps, has_value, matcher) ==
    IF TryMatchOptionExcludingValue(self, ps, matcher)
      THEN CASE OptionHasValueOf(matcher) = "AlwaysAndValueCanStartWithOptionAnnouncer" ->
                    IF has_value
                      THEN TryMatchValueText(self, ps.value_bldr, matcher.value_text)
                      ELSE FALSE
             [] OptionHasValueOf(matcher) = "AlwaysButValueMustNotStartWithOptionAnnouncer" ->
                    IF has_value
                      THEN TryMatchValueText(self, ps.value_bldr, matcher.value_text)
                      ELSE FALSE
             [] OptionHasValueOf(matcher) = "IfPossible" ->
                    IF has_value
                      THEN TryMatchValueText(self, ps.value_bldr, matcher.value_text)
                      ELSE TRUE
             [] OptionHasValueOf(matcher) = "Never" -> ~has_value
      ELSE FALSE

\* find returning the last matcher that satisfies the predicate
FindFirst_Last(hits) ==
    IF \E i \in DOMAIN hits : hits[i]
      THEN CHOOSE i \in DOMAIN hits : hits[i] /\ \A j \in DOMAIN hits : j > i => ~hits[j]
      ELSE NoMatcher

\* Iterator::find over self.matchers, hits[i] telling whether the i-th
\* matcher satisfies the predicate: the position of the first matcher that
\* does, NoMatcher when there is none
FindFirst(hits) ==
    IF \E i \in DOMAIN hits : hits[i]
      THEN CHOOSE i \in DOMAIN hits : hits[i] /\ \A j \in 1..(i - 1) : ~hits[j]
      ELSE NoMatcher

\* try_find_option_matcher handing out the fallback matcher when no matcher
\* of the list accepts the option
TryFindOptionMatcher_FallsBack(self, ps, has_value) ==
    IF self.matchers = <<>>
      THEN FallbackRef
      ELSE IF \E i \in 1..Len(self.matchers) :
                   TryMatchOption(self, ps, has_value, self.matchers[i])
             THEN FindFirst([i \in 1..Len(self.matchers) |->
                                 TryMatchOption(self, ps, has_value, self.matchers[i])])
             ELSE FallbackRef

\* Parser::try_find_option_matcher
TryFindOptionMatcher(self, ps, has_value) ==
    IF self.matchers = <<>>
      THEN FallbackRef
      ELSE FindFirst([i \in 1..Len(self.matchers) |->
                          TryMatchOption(self, ps, has_value, self.matchers[i])])

\* Parser::add_option_arg
AddOptionArg(st, has_value, matcher) ==
    LET value_text == IF has_value THEN SomeV(st.ps.value_bldr) ELSE NoneText
        properties == [ kind |-> "Option",
                        matcher |-> matcher,
                        line_char_index |-> st.ps.arg_line_char_idx,
                        arg_index |-> st.ps.arg_count,
                        option_index |-> st.ps.option_count,
                        code |-> st.ps.option_code,
                        value_text |-> value_text ]
    IN  [st EXCEPT !.args = Append(@, properties),
                   !.ps.arg_count = @ + 1,
                   !.ps.option_count = @ + 1]

\* add_param_arg counting the parameter as an option
AddParamArg_CountsOption(st, matcher) ==
    LET properties == [ kind |-> "Param",
                        matcher |-> matcher,
                        line_char_index |-> st.ps.arg_line_char_idx,
                        arg_index |-> st.ps.arg_count,
                        param_index |-> st.ps.param_count,
                        value_text |-> st.ps.value_bldr ]
    IN  [st EXCEPT !.args = Append(@, properties),
                   !.ps.arg_count = @ + 1,
                   !.ps.option_count = @ + 1]

\* Parser::add_param_arg
AddParamArg(st, matcher) ==
    LET properties == [ kind |-> "Param",
                        matcher |-> matcher,
                        line_char_index |-> st.ps.arg_line_char_idx,
                        arg_index |-> st.ps.arg_count,
                        param_index |-> st.ps.param_count,
                        value_text |-> st.ps.value_bldr ]
    IN  [st EXCEPT !.args = Append(@, properties),
                   !.ps.arg_count = @ + 1,
                   !.ps.param_count = @ + 1]

\* match_param_arg searching the matcher list even when it is empty
MatchParamArg_SkipsFallback(self, st) ==
    LET optioned_matcher ==
            FindFirst([i \in 1..Len(self.matchers) |->
                          TryMatchParam(self, st.ps, self.matchers[i])])
    IN  IF optioned_matcher # NoMatcher
          THEN AddParamArg(st, optioned_matcher)
          ELSE CreateError(st, "UnmatchedParam", ExtraArgCount(st))

\* Parser::match_param_arg
MatchParamArg(self, st) ==
    LET optioned_matcher ==
            IF self.matchers = <<>>
              THEN FallbackRef
              ELSE FindFirst([i \in 1..Len(self.matchers) |->
                                 TryMatchParam(self, st.ps, self.matchers[i])])
    IN  IF optioned_matcher # NoMatcher
          THEN AddParamArg(st, optioned_matcher)
          ELSE CreateError(st, "UnmatchedParam", ExtraArgCount(st))

\* match_option_arg without the second attempt for an ambiguous announcer
MatchOptionArg_NoRetry(self, st, has_value) ==
    LET optioned_matcher == TryFindOptionMatcher(self, st.ps, has_value)
    IN  IF optioned_matcher # NoMatcher
          THEN AddOptionArg(st, has_value, optioned_matcher)
          ELSE CreateError(st, "UnmatchedOption", ExtraOptionCode(st))

\* match_option_arg reporting a failure of the second attempt's param as
\* an unmatched option
MatchOptionArg_ParamFailureAsOption(self, st, has_value) ==
    LET optioned_matcher == TryFindOptionMatcher(self, st.ps, has_value)
        retry_matcher == TryFindOptionMatcher(self, st.ps, FALSE)
        retried == MatchParamArg(self, AddOptionArg(st, FALSE, retry_matcher))
    IN  IF optioned_matcher # NoMatcher
          THEN AddOptionArg(st, has_value, optioned_matcher)
          ELSE IF has_value /\ st.ps.current_option_value_may_be_param
                 THEN IF retry_matcher # NoMatcher /\ retried.status = "Ok"
                        THEN retried
                        ELSE CreateError(st, "UnmatchedOption", ExtraOptionCode(st))
                 ELSE CreateError(st, "UnmatchedOption", ExtraOptionCode(st))

\* match_option_arg making the second attempt whenever the value announcer
\* was whitespace
MatchOptionArg_RetriesWhenAmbiguous(self, st, has_value) ==
    LET optioned_matcher == TryFindOptionMatcher(self, st.ps, has_value)
        retry_matcher == TryFindOptionMatcher(self, st.ps, FALSE)
    IN  IF optioned_matcher # NoMatcher
          THEN AddOptionArg(st, has_value, optioned_matcher)
          ELSE IF has_value /\ st.ps.option_value_announcer_is_ambiguous
                 THEN IF retry_matcher # NoMatcher
                        THEN MatchParamArg(self, AddOptionArg(st, FALSE, retry_matcher))
                        ELSE CreateError(st, "UnmatchedOption", ExtraOptionCode(st))
                 ELSE CreateError(st, "UnmatchedOption", ExtraOptionCode(st))

\* Parser::match_option_arg
MatchOptionArg(self, st, has_value) ==
    LET optioned_matcher == TryFindOptionMatcher(self, st.ps, has_value)
        retry_matcher == TryFindOptionMatcher(self, st.ps, FALSE)
    IN  IF optioned_matcher # NoMatcher
          THEN AddOptionArg(st, has_value, optioned_matcher)
          ELSE IF has_value /\ st.ps.current_option_value_may_be_param
                 THEN IF retry_matcher # NoMatcher
                        THEN MatchParamArg(self, AddOptionArg(st, FALSE, retry_matcher))
                        ELSE CreateError(st, "UnmatchedOption", ExtraOptionCode(st))
                 ELSE CreateError(st, "UnmatchedOption", ExtraOptionCode(st))

\* can_option_code_have_value_with_matcher counting a matcher with policy Never
CanOptionCodeHaveValueWithMatcher_CountsNever(self, ps, matcher) ==
    TryMatchOptionExcludingValue(self, ps, matcher)

\* Parser::can_option_code_have_value_with_matcher
CanOptionCodeHaveValueWithMatcher(self, ps, matcher) ==
    IF TryMatchOptionExcludingValue(self, ps, matcher)
      THEN OptionHasValueOf(matcher) # "Never"
      ELSE FALSE

\* Parser::can_option_code_have_value
CanOptionCodeHaveValue(self, ps) ==
    IF self.matchers = <<>>
      THEN CanOptionCodeHaveValueWithMatcher(self, ps, self.fallback_matcher)
      ELSE \E i \in 1..Len(self.matchers) :
               CanOptionCodeHaveValueWithMatcher(self, ps, self.matchers[i])

\* Parser::can_option_have_value_with_first_char_with_matcher: "Must",
\* "Possibly" or "MustNot"; "Err" for the Err it returns and "Panic" for
\* its unreachable! branch
CanOptionHaveValueWithFirstCharWithMatcher(self, ps, first_char_of_value_is_option_announcer, matcher) ==
    IF TryMatchOptionExcludingValue(self, ps, matcher)
      THEN CASE OptionHasValueOf(matcher) = "AlwaysButValueMustNotStartWithOptionAnnouncer" ->
                    IF first_char_of_value_is_option_announcer THEN "Err" ELSE "Must"
             [] OptionHasValueOf(matcher) = "AlwaysAndValueCanStartWithOptionAnnouncer" ->
                    "Must"
             [] OptionHasValueOf(matcher) = "IfPossible" ->
                    IF ps.option_value_announcer_is_ambiguous
                      THEN IF first_char_of_value_is_option_announcer
                             THEN "MustNot" ELSE "Possibly"
                      ELSE IF first_char_of_value_is_option_announcer
                             THEN "Err" ELSE "Must"
             [] OptionHasValueOf(matcher) = "Never" -> "Panic"
      ELSE "MustNot"

\* Parser::can_option_have_value_with_first_char: the loop leaves at the
\* first matcher that answers Must, returns an Err or panics
CanOptionHaveValueWithFirstChar(self, ps, first_char_of_value_is_option_announcer) ==
    LET Answer(i) == CanOptionHaveValueWithFirstCharWithMatcher(
                         self, ps, first_char_of_value_is_option_announcer, self.matchers[i])
        n == Len(self.matchers)
        exit == FindFirst([i \in 1..n |-> Answer(i) \in {"Must", "Err", "Panic"}])
    IN  IF self.matchers = <<>>
          THEN CanOptionHaveValueWithFirstCharWithMatcher(
                   self, ps, first_char_of_value_is_option_announcer, self.fallback_matcher)
          ELSE IF exit # NoMatcher
                 THEN Answer(exit)
                 ELSE IF \E i \in 1..n : Answer(i) = "Possibly"
                        THEN "Possibly" ELSE "MustNot"

----------------------------------------------------------------------------
(* Scanner *)

\* char::len_utf8 on the code points the model uses
Utf8Len(c) == IF c = "é" THEN 2 ELSE 1

\* the byte index at which the code point of index i (zero-based) begins in
\* the UTF-8 text of ln; for i = Len(ln) the length of that text
RECURSIVE ByteOffset(_, _)
ByteOffset(ln, i) == IF i = 0 THEN 0 ELSE ByteOffset(ln, i - 1) + Utf8Len(ln[i])

\* str::is_char_boundary
IsCharBoundary(ln, index) == \E i \in 0..Len(ln) : ByteOffset(ln, i) = index

\* the index expression &line[begin..end] on a str: begin and end are byte
\* indices; the slice is the code points whose bytes lie between them, and
\* the expression panics when begin > end or when one of them is not on a
\* char boundary
StrSlice(ln, begin, end) ==
    IF begin <= end /\ IsCharBoundary(ln, begin) /\ IsCharBoundary(ln, end)
      THEN SomeV(SubSeq(ln,
                        (CHOOSE i \in 0..Len(ln) : ByteOffset(ln, i) = begin) + 1,
                        CHOOSE i \in 0..Len(ln) : ByteOffset(ln, i) = end))
      ELSE NoneText

\* ParseState::set_option_code: the raw code is &line[start_idx..ending_index],
\* a slice of the str by byte indices, and both indices count code points
SetOptionCode(self, st, ln, ending_index) ==
    LET sliced == StrSlice(ln, st.ps.start_idx, ending_index)
        raw_option_code == sliced.v
        first_char_is_announcer == raw_option_code[1] = st.ps.option_announcer_char
        announcer_is_one_char_only == Len(raw_option_code) >= 2
    IN  IF ~sliced.some
          THEN [st EXCEPT !.status = "Panic"]
        ELSE IF raw_option_code = <<>>
          THEN [st EXCEPT !.ps.option_code = <<>>]
          ELSE IF ~self.multi_char_option_code_requires_double_announcer
                 THEN [st EXCEPT !.ps.option_code = raw_option_code]
                 ELSE IF announcer_is_one_char_only
                        THEN IF first_char_is_announcer
                               THEN [st EXCEPT !.ps.option_code = <<>>]
                               ELSE [st EXCEPT !.ps.option_code = raw_option_code]
                        ELSE IF first_char_is_announcer
                               THEN [st EXCEPT !.ps.option_code = raw_option_code]
                               ELSE CreateOptionError([st EXCEPT !.ps.option_code = raw_option_code],
                                                      "OptionCodeMissingDoubleAnnouncer",
                                                      ending_index)

\* the statements that follow a call made with ?: skipped when the call
\* returned an Err or panicked
ThenNotInArg(st) ==
    IF st.status = "Ok" THEN [st EXCEPT !.ps.arg_parse_state = "NotInArg"] ELSE st

\* the arm NotInArg skipping a terminate char as it skips whitespace
ProcessCharNotInArg_SkipsTerminate(self, st, char_idx_, line_char) ==
    IF line_char = self.quote_char
      THEN [st EXCEPT !.ps.arg_parse_state = "InParam",
                      !.ps.arg_line_char_idx = char_idx_,
                      !.ps.start_idx = char_idx_,
                      !.ps.value_bldr = <<>>,
                      !.ps.value_quoted = TRUE]
      ELSE IF line_char \in self.option_announcer_chars
        THEN [st EXCEPT !.ps.arg_parse_state = "InOption",
                        !.ps.option_parse_state = "Announced",
                        !.ps.option_announcer_char = line_char,
                        !.ps.arg_line_char_idx = char_idx_,
                        !.ps.start_idx = char_idx_ + 1]
        ELSE IF line_char \in self.parse_terminate_chars
          THEN st
          ELSE IF ~IsWhitespace(line_char)
            THEN [st EXCEPT !.ps.arg_parse_state = "InParam",
                            !.ps.arg_line_char_idx = char_idx_,
                            !.ps.start_idx = char_idx_,
                            !.ps.value_bldr = <<line_char>>,
                            !.ps.value_quoted = FALSE]
            ELSE st

\* process_char, arm NotInArg
ProcessCharNotInArg(self, st, char_idx_, line_char) ==
    IF line_char = self.quote_char
      THEN [st EXCEPT !.ps.arg_parse_state = "InParam",
                      !.ps.arg_line_char_idx = char_idx_,
                      !.ps.start_idx = char_idx_,
                      !.ps.value_bldr = <<>>,
                      !.ps.value_quoted = TRUE]
      ELSE IF line_char \in self.option_announcer_chars
        THEN [st EXCEPT !.ps.arg_parse_state = "InOption",
                        !.ps.option_parse_state = "Announced",
                        !.ps.option_announcer_char = line_char,
                        !.ps.arg_line_char_idx = char_idx_,
                        !.ps.start_idx = char_idx_ + 1]
        ELSE IF line_char \in self.parse_terminate_chars
          THEN [st EXCEPT !.more = FALSE]
          ELSE IF ~IsWhitespace(line_char)
            THEN [st EXCEPT !.ps.arg_parse_state = "InParam",
                            !.ps.arg_line_char_idx = char_idx_,
                            !.ps.start_idx = char_idx_,
                            !.ps.value_bldr = <<line_char>>,
                            !.ps.value_quoted = FALSE]
            ELSE st

\* the arm InParam honouring the escape char in quoted params only
ProcessCharInParam_EscapeOnlyQuoted(self, st, line_char) ==
    IF self.escape_char # NoChar /\ self.escape_char = line_char /\ st.ps.value_quoted
      THEN [st EXCEPT !.ps.arg_parse_state = "InParamEscaped"]
      ELSE IF st.ps.value_quoted
        THEN IF line_char = self.quote_char
               THEN [st EXCEPT !.ps.arg_parse_state = "InParamPossibleEndQuote"]
               ELSE [st EXCEPT !.ps.value_bldr = Append(@, line_char)]
        ELSE IF ~IsWhitespace(line_char)
               THEN [st EXCEPT !.ps.value_bldr = Append(@, line_char)]
               ELSE ThenNotInArg(MatchParamArg(self, st))

\* process_char, arm InParam
ProcessCharInParam(self, st, line_char) ==
    IF self.escape_char # NoChar /\ self.escape_char = line_char
      THEN [st EXCEPT !.ps.arg_parse_state = "InParamEscaped"]
      ELSE IF st.ps.value_quoted
        THEN IF line_char = self.quote_char
               THEN [st EXCEPT !.ps.arg_parse_state = "InParamPossibleEndQuote"]
               ELSE [st EXCEPT !.ps.value_bldr = Append(@, line_char)]
        ELSE IF ~IsWhitespace(line_char)
               THEN [st EXCEPT !.ps.value_bldr = Append(@, line_char)]
               ELSE ThenNotInArg(MatchParamArg(self, st))

\* the arm InParamPossibleEndQuote keeping both quote chars of a pair
ProcessCharInParamPossibleEndQuote_KeepsPair(self, st, line_char) ==
    IF line_char = self.quote_char /\ self.embed_quote_char_with_double
      THEN [st EXCEPT !.ps.value_bldr = @ \o <<line_char, line_char>>,
                      !.ps.arg_parse_state = "InParam"]
      ELSE IF IsWhitespace(line_char)
             THEN ThenNotInArg(MatchParamArg(self, st))
             ELSE CreateError(st, "QuotedParamNotFollowedByWhitespaceChar", ExtraValue(st))

\* process_char, arm InParamPossibleEndQuote
ProcessCharInParamPossibleEndQuote(self, st, line_char) ==
    IF line_char = self.quote_char /\ self.embed_quote_char_with_double
      THEN [st EXCEPT !.ps.value_bldr = Append(@, line_char),
                      !.ps.arg_parse_state = "InParam"]
      ELSE IF IsWhitespace(line_char)
             THEN ThenNotInArg(MatchParamArg(self, st))
             ELSE CreateError(st, "QuotedParamNotFollowedByWhitespaceChar", ExtraValue(st))

\* process_char, arm InParamEscaped
ProcessCharInParamEscaped(st, line_char) ==
    [st EXCEPT !.ps.value_bldr = Append(@, line_char),
               !.ps.arg_parse_state = "InParam"]

\* process_char, arm InOption / Announced
ProcessCharAnnounced(self, st, char_idx_, line_char) ==
    IF IsWhitespace(line_char) \/ line_char \in CreateOptionTerminationCharArray(self)
      THEN CreateError(st, "NoCodeAfterOptionAnnouncer", ExtraCharIdx(char_idx_))
      ELSE [st EXCEPT !.ps.option_parse_state = "InCode"]

\* process_char, arm InOption / InCode
ProcessCharInCode(self, st, ln, char_idx_, line_char) ==
    LET option_value_announced == line_char \in self.option_value_announcer_chars
        line_char_is_whitespace == IsWhitespace(line_char)
        coded == SetOptionCode(self, st, ln, char_idx_)
        announced == [coded EXCEPT
                         !.ps.option_value_announcer_is_ambiguous = line_char_is_whitespace]
        valueless == [coded EXCEPT !.ps.current_option_value_may_be_param = FALSE]
        ambiguous_valueless ==
            [announced EXCEPT !.ps.current_option_value_may_be_param = FALSE]
    IN  IF option_value_announced \/ line_char_is_whitespace
              \/ line_char \in CreateOptionTerminationCharArray(self)
          THEN IF coded.status # "Ok"
                 THEN coded
                 ELSE IF coded.ps.option_code = <<>>
                   THEN CreateError(coded, "NoCodeAfterOptionAnnouncer", ExtraCharIdx(char_idx_))
                   ELSE IF option_value_announced
                     THEN IF CanOptionCodeHaveValue(self, announced.ps)
                            THEN [announced EXCEPT !.ps.option_parse_state = "WaitOptionValue"]
                            ELSE IF announced.ps.option_value_announcer_is_ambiguous
                                   THEN ThenNotInArg(MatchOptionArg(self, ambiguous_valueless, FALSE))
                                   ELSE CreateError(announced, "NoMatchSupportsValueForOptionCode", ExtraOptionCode(announced))
                     ELSE ThenNotInArg(MatchOptionArg(self, valueless, FALSE))
          ELSE st

\* the arm InValue completing the option without its value at whitespace
ProcessCharInValue_DropsValue(self, st, line_char) ==
    IF self.escape_char # NoChar /\ self.escape_char = line_char
      THEN [st EXCEPT !.ps.option_parse_state = "InValueEscaped"]
      ELSE IF st.ps.value_quoted
        THEN IF line_char = self.quote_char
               THEN [st EXCEPT !.ps.option_parse_state = "InValuePossibleEndQuote"]
               ELSE [st EXCEPT !.ps.value_bldr = Append(@, line_char)]
        ELSE IF ~IsWhitespace(line_char)
               THEN [st EXCEPT !.ps.value_bldr = Append(@, line_char)]
               ELSE ThenNotInArg(MatchOptionArg(self, st, FALSE))

\* process_char, arm InOption / InValue
ProcessCharInValue(self, st, line_char) ==
    IF self.escape_char # NoChar /\ self.escape_char = line_char
      THEN [st EXCEPT !.ps.option_parse_state = "InValueEscaped"]
      ELSE IF st.ps.value_quoted
        THEN IF line_char = self.quote_char
               THEN [st EXCEPT !.ps.option_parse_state = "InValuePossibleEndQuote"]
               ELSE [st EXCEPT !.ps.value_bldr = Append(@, line_char)]
        ELSE IF ~IsWhitespace(line_char)
               THEN [st EXCEPT !.ps.value_bldr = Append(@, line_char)]
               ELSE ThenNotInArg(MatchOptionArg(self, st, TRUE))

\* process_char, arm InOption / InValuePossibleEndQuote
ProcessCharInValuePossibleEndQuote(self, st, line_char) ==
    IF line_char = self.quote_char /\ self.embed_quote_char_with_double
      THEN [st EXCEPT !.ps.value_bldr = Append(@, line_char),
                      !.ps.option_parse_state = "InValue"]
      ELSE IF IsWhitespace(line_char)
             THEN ThenNotInArg(MatchOptionArg(self, st, TRUE))
             ELSE CreateError(st, "QuotedOptionValueNotFollowedByWhitespaceChar", ExtraOptionCode(st))

\* process_char, arm InOption / InValueEscaped
ProcessCharInValueEscaped(st, line_char) ==
    [st EXCEPT !.ps.value_bldr = Append(@, line_char),
               !.ps.option_parse_state = "InValue"]

\* Parser::process_char.  The arm WaitOptionValue calls process_char again
\* on the same character: through begin_parsing_option_value when the
\* option takes the value, directly after emitting the option when not.
RECURSIVE ProcessChar(_, _, _, _, _)
ProcessChar(self, st0, ln, char_idx_, line_char) ==
    LET st == [st0 EXCEPT !.more = TRUE]
        aps == st.ps.arg_parse_state
        ops == st.ps.option_parse_state
        \* begin_parsing_option_value
        BeginParsingOptionValue(s) ==
            ProcessChar(self,
                        [s EXCEPT !.ps.value_bldr = <<>>,
                                  !.ps.value_quoted = FALSE,
                                  !.ps.option_parse_state = "InValue"],
                        ln, char_idx_, line_char)
        first_char_of_value_is_option_announcer ==
            line_char \in self.option_value_announcer_chars
        has_value == CanOptionHaveValueWithFirstChar(
                         self, st.ps, first_char_of_value_is_option_announcer)
        emitted == MatchOptionArg(
                       self, [st EXCEPT !.ps.current_option_value_may_be_param = FALSE], FALSE)
    IN  CASE aps = "NotInArg" -> ProcessCharNotInArg(self, st, char_idx_, line_char)
          [] aps = "InParam" -> ProcessCharInParam(self, st, line_char)
          [] aps = "InParamPossibleEndQuote" ->
                 ProcessCharInParamPossibleEndQuote(self, st, line_char)
          [] aps = "InParamEscaped" -> ProcessCharInParamEscaped(st, line_char)
          [] aps = "InOption" /\ ops = "Announced" ->
                 ProcessCharAnnounced(self, st, char_idx_, line_char)
          [] aps = "InOption" /\ ops = "InCode" ->
                 ProcessCharInCode(self, st, ln, char_idx_, line_char)
          [] aps = "InOption" /\ ops = "WaitOptionValue" ->
                 IF IsWhitespace(line_char)
                   THEN st
                   ELSE (CASE has_value = "Err" ->
                                 CreateError(st, "OptionValueCannotBeginWithOptionAnnouncer", ExtraOptionCode(st))
                          [] has_value = "Panic" -> Unreachable(st)
                          [] has_value = "Must" ->
                                 BeginParsingOptionValue(
                                     [st EXCEPT !.ps.current_option_value_may_be_param = FALSE])
                          [] has_value = "Possibly" ->
                                 BeginParsingOptionValue(
                                     [st EXCEPT !.ps.current_option_value_may_be_param = TRUE])
                          [] has_value = "MustNot" ->
                                 IF emitted.status # "Ok"
                                   THEN emitted
                                   ELSE ProcessChar(self, ThenNotInArg(emitted),
                                                    ln, char_idx_, line_char))
          [] aps = "InOption" /\ ops = "InValue" -> ProcessCharInValue(self, st, line_char)
          [] aps = "InOption" /\ ops = "InValuePossibleEndQuote" ->
                 ProcessCharInValuePossibleEndQuote(self, st, line_char)
          [] aps = "InOption" /\ ops = "InValueEscaped" ->
                 ProcessCharInValueEscaped(st, line_char)

\* the match after the scan loop taking an open quoted param as complete
EndOfLine_AcceptsOpenQuote(self, st, ln) ==
    LET aps == st.ps.arg_parse_state
        ops == st.ps.option_parse_state
        coded == SetOptionCode(self, st, ln, Len(ln))
        has_value == CanOptionHaveValueWithFirstChar(self, st.ps, FALSE)
        valueless == [st EXCEPT !.ps.current_option_value_may_be_param = FALSE]
    IN  CASE aps = "NotInArg" -> st
          [] aps = "InParam" ->
                 MatchParamArg(self, st)
          [] aps = "InParamPossibleEndQuote" -> MatchParamArg(self, st)
          [] aps = "InParamEscaped" -> CreateError(st, "InvalidEscapedCharacterInParam", ExtraOptionCode(st))
          [] aps = "InOption" /\ ops = "Announced" ->
                 CreateError(st, "NoCodeAfterOptionAnnouncer", ExtraCharIdx(Len(ln)))
          [] aps = "InOption" /\ ops = "InCode" ->
                 IF coded.status # "Ok" THEN coded ELSE MatchOptionArg(self, coded, FALSE)
          [] aps = "InOption" /\ ops = "WaitOptionValue" ->
                 (CASE has_value = "Err" ->
                          CreateError(st, "OptionValueCannotBeginWithOptionAnnouncer", ExtraOptionCode(st))
                   [] has_value = "Panic" -> Unreachable(st)
                   [] has_value = "Must" ->
                          CreateError(st, "NoMatchSupportsValueForOptionCode", ExtraOptionCode(st))
                   [] has_value = "Possibly" -> MatchOptionArg(self, valueless, FALSE)
                   [] has_value = "MustNot" -> MatchOptionArg(self, valueless, FALSE))
          [] aps = "InOption" /\ ops = "InValue" ->
                 IF st.ps.value_quoted
                   THEN CreateError(st, "OptionValueMissingClosingQuoteCharacter", ExtraOptionCode(st))
                   ELSE MatchOptionArg(self, st, TRUE)
          [] aps = "InOption" /\ ops = "InValuePossibleEndQuote" ->
                 MatchOptionArg(self, st, TRUE)
          [] aps = "InOption" /\ ops = "InValueEscaped" ->
                 CreateError(st, "InvalidEscapedCharacterInOptionValue", ExtraOptionCode(st))

\* the match after the scan loop completing an option that awaits its value
\* without a value whatever the decision is
EndOfLine_EmitsWhenMust(self, st, ln) ==
    LET aps == st.ps.arg_parse_state
        ops == st.ps.option_parse_state
        coded == SetOptionCode(self, st, ln, Len(ln))
        has_value == CanOptionHaveValueWithFirstChar(self, st.ps, FALSE)
        valueless == [st EXCEPT !.ps.current_option_value_may_be_param = FALSE]
    IN  CASE aps = "NotInArg" -> st
          [] aps = "InParam" ->
                 IF st.ps.value_quoted
                   THEN CreateError(st, "ParamMissingClosingQuoteCharacter", NoInfo)
                   ELSE MatchParamArg(self, st)
          [] aps = "InParamPossibleEndQuote" -> MatchParamArg(self, st)
          [] aps = "InParamEscaped" -> CreateError(st, "InvalidEscapedCharacterInParam", ExtraOptionCode(st))
          [] aps = "InOption" /\ ops = "Announced" ->
                 CreateError(st, "NoCodeAfterOptionAnnouncer", ExtraCharIdx(Len(ln)))
          [] aps = "InOption" /\ ops = "InCode" ->
                 IF coded.status # "Ok" THEN coded ELSE MatchOptionArg(self, coded, FALSE)
          [] aps = "InOption" /\ ops = "WaitOptionValue" ->
                 (CASE has_value = "Err" ->
                          CreateError(st, "OptionValueCannotBeginWithOptionAnnouncer", ExtraOptionCode(st))
                   [] has_value = "Panic" -> Unreachable(st)
                   [] has_value = "Must" -> MatchOptionArg(self, valueless, FALSE)
                   [] has_value = "Possibly" -> MatchOptionArg(self, valueless, FALSE)
                   [] has_value = "MustNot" -> MatchOptionArg(self, valueless, FALSE))
          [] aps = "InOption" /\ ops = "InValue" ->
                 IF st.ps.value_quoted
                   THEN CreateError(st, "OptionValueMissingClosingQuoteCharacter", ExtraOptionCode(st))
                   ELSE MatchOptionArg(self, st, TRUE)
          [] aps = "InOption" /\ ops = "InValuePossibleEndQuote" ->
                 MatchOptionArg(self, st, TRUE)
          [] aps = "InOption" /\ ops = "InValueEscaped" ->
                 CreateError(st, "InvalidEscapedCharacterInOptionValue", ExtraOptionCode(st))

\* Parser::parse, the match after the scan loop
EndOfLine(self, st, ln) ==
    LET aps == st.ps.arg_parse_state
        ops == st.ps.option_parse_state
        coded == SetOptionCode(self, st, ln, Len(ln))
        has_value == CanOptionHaveValueWithFirstChar(self, st.ps, FALSE)
        valueless == [st EXCEPT !.ps.current_option_value_may_be_param = FALSE]
    IN  CASE aps = "NotInArg" -> st
          [] aps = "InParam" ->
                 IF st.ps.value_quoted
                   THEN CreateError(st, "ParamMissingClosingQuoteCharacter", NoInfo)
                   ELSE MatchParamArg(self, st)
          [] aps = "InParamPossibleEndQuote" -> MatchParamArg(self, st)
          [] aps = "InParamEscaped" -> CreateError(st, "InvalidEscapedCharacterInParam", ExtraOptionCode(st))
          [] aps = "InOption" /\ ops = "Announced" ->
                 CreateError(st, "NoCodeAfterOptionAnnouncer", ExtraCharIdx(Len(ln)))
          [] aps = "InOption" /\ ops = "InCode" ->
                 IF coded.status # "Ok" THEN coded ELSE MatchOptionArg(self, coded, FALSE)
          [] aps = "InOption" /\ ops = "WaitOptionValue" ->
                 (CASE has_value = "Err" ->
                          CreateError(st, "OptionValueCannotBeginWithOptionAnnouncer", ExtraOptionCode(st))
                   [] has_value = "Panic" -> Unreachable(st)
                   [] has_value = "Must" ->
                          CreateError(st, "NoMatchSupportsValueForOptionCode", ExtraOptionCode(st))
                   [] has_value = "Possibly" -> MatchOptionArg(self, valueless, FALSE)
                   [] has_value = "MustNot" -> MatchOptionArg(self, valueless, FALSE))
          [] aps = "InOption" /\ ops = "InValue" ->
                 IF st.ps.value_quoted
                   THEN CreateError(st, "OptionValueMissingClosingQuoteCharacter", ExtraOptionCode(st))
                   ELSE MatchOptionArg(self, st, TRUE)
          [] aps = "InOption" /\ ops = "InValuePossibleEndQuote" ->
                 MatchOptionArg(self, st, TRUE)
          [] aps = "InOption" /\ ops = "InValueEscaped" ->
                 CreateError(st, "InvalidEscapedCharacterInOptionValue", ExtraOptionCode(st))

----------------------------------------------------------------------------
(* parse as a function of the parser and the line *)

\* what parse returns: Ok(args), Err(text) or a panic; on Err and on a
\* panic the args vector is dropped
OutcomeOf(st) ==
    IF st.status = "Ok"
      THEN [kind |-> "Ok", args |-> st.args, error |-> "", info |-> NoInfo]
      ELSE [kind |-> st.status, args |-> <<>>, error |-> st.error, info |-> st.info]

NoOutcome == [kind |-> "None", args |-> <<>>, error |-> "", info |-> NoInfo]

\* Parser::parse, the scan loop from index idx on: it leaves on an Err
\* (through ?), on a panic, on more = false (break) and at the end of line
RECURSIVE ScanFrom(_, _, _, _)
ScanFrom(self, st, ln, idx) ==
    IF idx >= Len(ln)
      THEN st
      ELSE LET r == ProcessChar(self, st, ln, idx, ln[idx + 1])
           IN  IF r.status # "Ok" \/ ~r.more THEN r ELSE ScanFrom(self, r, ln, idx + 1)

\* Parser::parse
Parse(self, ln) ==
    LET scanned == ScanFrom(self, NewFrame, ln, 0)
    IN  IF scanned.status # "Ok"
          THEN OutcomeOf(scanned)
          ELSE OutcomeOf(EndOfLine(self, scanned, ln))

\* no call was made on the matcher list yet
NoRegistryCall == [op |-> "none", index |-> -1, len_before |-> 0, result |-> "Ok"]

\* no second call: the value of other while one call runs alone
NoCall == [phase |-> "None"]

----------------------------------------------------------------------------
(* The parse call as a sequence of steps *)

\* the frame of a call that keeps its ParseState where the other call keeps
\* its own, instead of in a local of parse
Frame_SharedCursor ==
    [ps |-> IF other.phase \in {"Scanning", "Finalizing"}
              THEN other.parse_state ELSE parse_state,
     args |-> args, status |-> "Ok", error |-> "",
     info |-> NoInfo, more |-> TRUE]

\* the locals of the running call, as process_char and the final match get them
Frame ==
    [ps |-> parse_state, args |-> args, status |-> "Ok", error |-> "",
     info |-> NoInfo, more |-> TRUE]

\* parse is called: the ParseState and the args vector are created
BeginParse ==
    /\ phase = "Idle"
    /\ phase' = "Scanning"
    /\ char_idx' = 0
    /\ parse_state' = NewParseState
    /\ args' = <<>>
    /\ UNCHANGED <<parser, line, outcome, last_call, other>>

\* one iteration of the scan loop: process_char on the next character
ScanChar ==
    /\ phase = "Scanning"
    /\ char_idx < Len(line)
    /\ LET r == ProcessChar(parser, Frame, line, char_idx, line[char_idx + 1])
       IN  /\ parse_state' = r.ps
           /\ args' = r.args
           /\ IF r.status # "Ok"
                THEN /\ outcome' = OutcomeOf(r)
                     /\ phase' = "Done"
                     /\ UNCHANGED char_idx
                ELSE /\ UNCHANGED outcome
                     /\ IF r.more
                          THEN char_idx' = char_idx + 1 /\ UNCHANGED phase
                          ELSE phase' = "Finalizing" /\ UNCHANGED char_idx
    /\ UNCHANGED <<parser, line, last_call, other>>

\* the loop is over (end of line, or break): the open argument is
\* finalized and parse returns
EndOfInput ==
    /\ \/ phase = "Finalizing"
       \/ phase = "Scanning" /\ char_idx = Len(line)
    /\ LET r == EndOfLine(parser, Frame, line)
       IN  /\ parse_state' = r.ps
           /\ args' = r.args
           /\ outcome' = OutcomeOf(r)
    /\ phase' = "Done"
    /\ UNCHANGED <<parser, line, char_idx, last_call, other>>

Next == BeginParse \/ ScanChar \/ EndOfInput

----------------------------------------------------------------------------
(* Inputs *)

\* all texts over an alphabet, up to a length
Texts(alphabet, n) == UNION {[1..k -> alphabet] : k \in 0..n}

\* a parser whose fields were assigned and to which matchers were added
ParserWith(escape_char, option_value_announcer_chars, embed_quote_char_with_double, matchers) ==
    [NewParser EXCEPT !.escape_char = escape_char,
                      !.option_value_announcer_chars = option_value_announcer_chars,
                      !.embed_quote_char_with_double = embed_quote_char_with_double,
                      !.matchers = matchers]

\* matchers the caller adds
MAny == NewMatcher("any")
MNever == [NewMatcher("never") EXCEPT !.option_has_value = SomeV("Never")]
MAlways == [NewMatcher("always") EXCEPT
               !.option_has_value = SomeV("AlwaysAndValueCanStartWithOptionAnnouncer")]
MDash == [NewMatcher("dash") EXCEPT !.value_text = SomeV(<<"-">>)]
MOption == [NewMatcher("option") EXCEPT !.option_or_parameter = SomeV("Option")]
MParam == [NewMatcher("param") EXCEPT !.option_or_parameter = SomeV("Parameter")]
MFirstArg == [NewMatcher("first") EXCEPT !.arg_indices = SomeV({0})]
MCodeA == [NewMatcher("code a") EXCEPT !.option_codes = SomeV({<<"a">>})]
MCodeAValueA == [NewMatcher("code a, value a") EXCEPT
                    !.option_codes = SomeV({<<"a">>}),
                    !.value_text = SomeV(<<"a">>)]

Chars == {"a", "-", " ", "\"", ">", "=", "\\"}

GeneralMatcherLists == {<<>>, <<MNever, MAny>>, <<MDash>>}

Init ==
    /\ parser \in {ParserWith(e, va, TRUE, ms) :
                      e \in {NoChar, "\\"}, va \in {{" "}, {"="}},
                      ms \in GeneralMatcherLists}
    /\ line \in Texts(Chars, MaxLen)
    /\ phase = "Idle"
    /\ char_idx = 0
    /\ parse_state = NewParseState
    /\ args = <<>>
    /\ outcome = NoOutcome
    /\ last_call = NoRegistryCall
    /\ other = NoCall

Spec == Init /\ [][Next]_vars

\* Matcher lists against lines of options and params, default configuration
MatchChars == {"-", "a", " ", "b"}

MatcherPool == {MAny, MNever, MAlways, MParam, MFirstArg, MCodeA, MCodeAValueA}

MatcherLists == UNION {[1..k -> MatcherPool] : k \in 0..MaxMatchers}

InitMatch ==
    /\ parser \in {ParserWith(NoChar, {" "}, TRUE, ms) : ms \in MatcherLists}
    /\ line \in Texts(MatchChars, MaxLen)
    /\ phase = "Idle"
    /\ char_idx = 0
    /\ parse_state = NewParseState
    /\ args = <<>>
    /\ outcome = NoOutcome
    /\ last_call = NoRegistryCall
    /\ other = NoCall

SpecMatch == InitMatch /\ [][Next]_vars

\* Quoted and escaped texts, as a param or as the value of an option
QuoteChars == {"a", " ", "\"", "\\"}

InitQuote ==
    /\ parser \in {ParserWith(e, {" "}, d, <<>>) : e \in {NoChar, "\\"}, d \in BOOLEAN}
    /\ line \in {head \o text : head \in {<<>>, <<"-", "a", " ">>},
                                text \in Texts(QuoteChars, MaxQuotedLen)}
    /\ phase = "Idle"
    /\ char_idx = 0
    /\ parse_state = NewParseState
    /\ args = <<>>
    /\ outcome = NoOutcome
    /\ last_call = NoRegistryCall
    /\ other = NoCall

SpecQuote == InitQuote /\ [][Next]_vars

----------------------------------------------------------------------------
(* Properties *)

Returned == phase = "Done"

OptionsBefore(results, i) == Cardinality({j \in 1..(i - 1) : results[j].kind = "Option"})
ParamsBefore(results, i) == Cardinality({j \in 1..(i - 1) : results[j].kind = "Param"})

\* C1: parse is all-or-nothing: it returns either the complete result
\* sequence or exactly one error, and with an error no result element.
C1_AllOrNothing ==
    Returned =>
        \/ outcome.kind = "Ok" /\ outcome.args = args /\ outcome.error = ""
        \/ outcome.kind = "Err" /\ outcome.args = <<>> /\ outcome.error # ""

\* the three counters agree with the results emitted so far
CountersAgree ==
    /\ parse_state.arg_count = parse_state.option_count + parse_state.param_count
    /\ parse_state.arg_count = Len(args)

\* every result carries its position as arg ordinal, and its position among
\* the results of its kind as option or param ordinal
OrdinalsArePositions(results) ==
    \A i \in 1..Len(results) :
        /\ results[i].arg_index = i - 1
        /\ results[i].kind = "Option" => results[i].option_index = OptionsBefore(results, i)
        /\ results[i].kind = "Param" => results[i].param_index = ParamsBefore(results, i)

\* a step never lowers a counter and changes one only by emitting a result
CountersStep ==
    /\ parse_state'.arg_count >= parse_state.arg_count
    /\ parse_state'.option_count >= parse_state.option_count
    /\ parse_state'.param_count >= parse_state.param_count
    /\ Len(args') >= Len(args)
    /\ SubSeq(args', 1, Len(args)) = args
    /\ (\/ parse_state'.arg_count # parse_state.arg_count
        \/ parse_state'.option_count # parse_state.option_count
        \/ parse_state'.param_count # parse_state.param_count) => Len(args') > Len(args)

\* C2: in a successful parse the i-th result has arg ordinal i and the k-th
\* Option (Param) has option (param) ordinal k; throughout the scan the
\* counters never decrease, change only when a result is emitted, and
\* arg_count = option_count + param_count = number of results emitted.
C2_Ordinals ==
    /\ [](CountersAgree /\ OrdinalsArePositions(args)
            /\ (outcome.kind = "Ok" => outcome.args = args))
    /\ [][CountersStep]_vars

\* a successful parse that returned an Option and a Param after it
C2_Witness ==
    /\ Returned
    /\ outcome.kind = "Ok"
    /\ \E i, j \in 1..Len(outcome.args) :
          i < j /\ outcome.args[i].kind = "Option" /\ outcome.args[j].kind = "Param"

----------------------------------------------------------------------------

\* a matcher is eligible for a result at the ordinals the result records
EligibleFor(self, matcher, result) ==
    IF result.kind = "Option"
      THEN TryMatchOption(self,
                          [arg_count |-> result.arg_index,
                           option_count |-> result.option_index,
                           option_code |-> result.code,
                           value_bldr |-> result.value_text.v],
                          result.value_text.some, matcher)
      ELSE TryMatchParam(self,
                         [arg_count |-> result.arg_index,
                          param_count |-> result.param_index,
                          value_bldr |-> result.value_text],
                         matcher)

EligibleMatchers(self, result) ==
    {j \in 1..Len(self.matchers) : EligibleFor(self, self.matchers[j], result)}

\* C3: with a non-empty matcher list, every emitted result (option with a
\* value, option without a value, param) references the eligible matcher
\* with the lowest list index.
C3_Priority ==
    parser.matchers # <<>> =>
        \A i \in 1..Len(args) :
            /\ args[i].matcher \in EligibleMatchers(parser, args[i])
            /\ \A j \in EligibleMatchers(parser, args[i]) : args[i].matcher <= j

\* a returned result for which two different matchers were eligible
C3_Witness ==
    /\ Returned
    /\ outcome.kind = "Ok"
    /\ \E i \in 1..Len(outcome.args) :
          \E j, k \in EligibleMatchers(parser, outcome.args[i]) :
              j < k /\ parser.matchers[j] # parser.matchers[k]
                    /\ outcome.args[i].matcher = j

----------------------------------------------------------------------------

\* the line `-a value`, value being a text of plain characters
IsOptionThenText(value) ==
    /\ value # <<>>
    /\ \A i \in 1..Len(value) : value[i] \in {"a", "b"}
    /\ line = <<"-", "a", " ">> \o value

TextOfLine == SubSeq(line, 4, Len(line))

\* some matcher is for code a with has_value = IfPossible
HasIfPossibleMatcherForCode ==
    \E j \in 1..Len(parser.matchers) :
        /\ parser.matchers[j].option_codes.some
        /\ <<"a">> \in parser.matchers[j].option_codes.v
        /\ OptionHasValueOf(parser.matchers[j]) = "IfPossible"

FirstOption(value_text) ==
    [arg_count |-> 0, option_count |-> 0, option_code |-> <<"a">>, value_bldr |-> value_text]

\* some matcher accepts the pair (a, value) as the first argument
PairAccepted(value) ==
    \E j \in 1..Len(parser.matchers) :
        TryMatchOption(parser, FirstOption(value), TRUE, parser.matchers[j])

\* some matcher accepts value as a Param that follows one option
ParamAccepted(value) ==
    \E j \in 1..Len(parser.matchers) :
        TryMatchParam(parser, [arg_count |-> 1, param_count |-> 0, value_bldr |-> value],
                      parser.matchers[j])

\* every matcher eligible for the option code at that position has
\* has_value = IfPossible
OnlyIfPossibleEligible ==
    \A j \in 1..Len(parser.matchers) :
        TryMatchOptionExcludingValue(parser, FirstOption(<<>>), parser.matchers[j])
            => OptionHasValueOf(parser.matchers[j]) = "IfPossible"

IsOptionWithValue(results, value) ==
    /\ Len(results) = 1
    /\ results[1].kind = "Option"
    /\ results[1].code = <<"a">>
    /\ results[1].value_text = SomeV(value)

IsOptionThenParam(results, value) ==
    /\ Len(results) = 2
    /\ results[1].kind = "Option"
    /\ results[1].code = <<"a">>
    /\ results[1].value_text = NoneText
    /\ results[2].kind = "Param"
    /\ results[2].value_text = value
    /\ results[2].arg_index = results[1].arg_index + 1

\* C4, as claimed: with whitespace a value announcer and the matchers
\* eligible for code a having has_value = IfPossible, `-a value` yields one
\* Option(a, value) when some matcher accepts the pair, and otherwise
\* Option(a, no value) followed by Param(value).
C4_AsClaimed ==
    (/\ Returned
     /\ " " \in parser.option_value_announcer_chars
     /\ IsOptionThenText(TextOfLine)
     /\ HasIfPossibleMatcherForCode
     /\ OnlyIfPossibleEligible) =>
        /\ outcome.kind = "Ok"
        /\ IF PairAccepted(TextOfLine)
             THEN IsOptionWithValue(outcome.args, TextOfLine)
             ELSE IsOptionThenParam(outcome.args, TextOfLine)

\* C4, amended: with whitespace a value announcer and the matchers
\* eligible for code a having has_value = IfPossible, `-a value` yields one
\* Option(a, value) when some matcher accepts the pair; otherwise it yields
\* Option(a, no value) followed by Param(value), the Param's arg ordinal
\* one greater, when some matcher accepts that Param, and fails with no
\* results when none does.
C4_AmbiguousValue ==
    (/\ Returned
     /\ " " \in parser.option_value_announcer_chars
     /\ IsOptionThenText(TextOfLine)
     /\ HasIfPossibleMatcherForCode
     /\ OnlyIfPossibleEligible) =>
        IF PairAccepted(TextOfLine)
          THEN outcome.kind = "Ok" /\ IsOptionWithValue(outcome.args, TextOfLine)
          ELSE IF ParamAccepted(TextOfLine)
                 THEN outcome.kind = "Ok" /\ IsOptionThenParam(outcome.args, TextOfLine)
                 ELSE outcome.kind = "Err" /\ outcome.args = <<>>

\* `-a value` was parsed as a value-less option followed by a param
C4_Witness ==
    /\ Returned
    /\ IsOptionThenText(TextOfLine)
    /\ HasIfPossibleMatcherForCode
    /\ OnlyIfPossibleEligible
    /\ ~PairAccepted(TextOfLine)
    /\ outcome.kind = "Ok"
    /\ IsOptionThenParam(outcome.args, TextOfLine)

----------------------------------------------------------------------------

\* the scan of the first p - 1 characters of the line
ScanBefore(p) == ScanFrom(parser, NewFrame, SubSeq(line, 1, p - 1), 0)

\* the p-th character of the line is a terminate char, and it is read in
\* one of the given scanner states
TerminateReadIn(p, states) ==
    /\ line[p] \in parser.parse_terminate_chars
    /\ ScanBefore(p).status = "Ok"
    /\ ScanBefore(p).more
    /\ <<ScanBefore(p).ps.arg_parse_state,
         IF ScanBefore(p).ps.arg_parse_state = "InOption"
           THEN ScanBefore(p).ps.option_parse_state ELSE "",
         IF ScanBefore(p).ps.arg_parse_state = "NotInArg"
           THEN FALSE ELSE ScanBefore(p).ps.value_quoted>> \in states

\* the terminate char ended the parse: it was the last character read and
\* parse returned what it returns for the line before that character
EndsParseAt(p) ==
    /\ char_idx = p - 1
    /\ outcome = Parse(parser, SubSeq(line, 1, p - 1))

\* C5: a terminate char read while the scanner is outside any argument
\* stops the scan; that character and the later ones are discarded without
\* an error, and the result is the result of parsing the line before it.
C5_TerminateOutside ==
    Returned =>
        \A p \in 1..Len(line) :
            TerminateReadIn(p, {<<"NotInArg", "", FALSE>>}) =>
                EndsParseAt(p) /\ outcome.kind = "Ok"

\* a terminate char was read outside any argument, after a param and
\* before further text
C5_Witness ==
    /\ Returned
    /\ \E p \in 1..Len(line) :
          /\ TerminateReadIn(p, {<<"NotInArg", "", FALSE>>})
          /\ p < Len(line)
          /\ ~IsWhitespace(line[p + 1])
          /\ Len(outcome.args) = 1
          /\ outcome.args[1].kind = "Param"

\* C6: a terminate char read anywhere outside a quoted value (between
\* arguments, after the text of an unquoted param, after an option code, as
\* the first character of an awaited option value) ends the parse: the open
\* argument is finalized and the rest of the line contributes to no result.
C6_TerminateEndsParse ==
    Returned =>
        \A p \in 1..Len(line) :
            TerminateReadIn(p, {<<"NotInArg", "", FALSE>>,
                                <<"InParam", "", FALSE>>,
                                <<"InOption", "InCode", FALSE>>,
                                <<"InOption", "WaitOptionValue", FALSE>>}) =>
                EndsParseAt(p)

----------------------------------------------------------------------------
(* Quoted and escaped texts, read independently of the scanner *)

\* in text every quote char q is one of a pair, and esc does not occur
RECURSIVE WellDoubled(_, _, _)
WellDoubled(text, q, esc) ==
    IF text = <<>>
      THEN TRUE
      ELSE IF text[1] = q
             THEN /\ Len(text) >= 2
                  /\ text[2] = q
                  /\ WellDoubled(SubSeq(text, 3, Len(text)), q, esc)
             ELSE text[1] # esc /\ WellDoubled(Tail(text), q, esc)

\* text with every pair of quote chars replaced by one
RECURSIVE Undoubled(_, _)
Undoubled(text, q) ==
    IF text = <<>>
      THEN <<>>
      ELSE IF text[1] = q
             THEN <<q>> \o Undoubled(SubSeq(text, 3, Len(text)), q)
             ELSE <<text[1]>> \o Undoubled(Tail(text), q)

\* in text every esc is followed by a character, and no character of stops
\* occurs without an esc before it
RECURSIVE WellEscaped(_, _, _)
WellEscaped(text, esc, stops) ==
    IF text = <<>>
      THEN TRUE
      ELSE IF text[1] = esc
             THEN Len(text) >= 2 /\ WellEscaped(SubSeq(text, 3, Len(text)), esc, stops)
             ELSE text[1] \notin stops /\ WellEscaped(Tail(text), esc, stops)

\* text with every esc removed and the character after it kept
RECURSIVE Unescaped(_, _)
Unescaped(text, esc) ==
    IF text = <<>>
      THEN <<>>
      ELSE IF text[1] = esc
             THEN <<text[2]>> \o Unescaped(SubSeq(text, 3, Len(text)), esc)
             ELSE <<text[1]>> \o Unescaped(Tail(text), esc)

Inner(text) == SubSeq(text, 2, Len(text) - 1)

IsQuoted(text, q) == Len(text) >= 2 /\ text[1] = q /\ text[Len(text)] = q

IsOneParam(results, value) ==
    /\ Len(results) = 1
    /\ results[1].kind = "Param"
    /\ results[1].value_text = value

\* C7: with embed_quote_char_with_double, in a quoted param every pair of
\* consecutive quote chars puts one quote char into the value and does not
\* end the param; the enclosing quote chars are not part of the value.
C7_QuoteDoubling ==
    (/\ Returned
     /\ parser.embed_quote_char_with_double
     /\ IsQuoted(line, parser.quote_char)
     /\ WellDoubled(Inner(line), parser.quote_char, parser.escape_char)) =>
        /\ outcome.kind = "Ok"
        /\ IsOneParam(outcome.args, Undoubled(Inner(line), parser.quote_char))

\* the line "a""a" was parsed
C7_Witness ==
    /\ Returned
    /\ line = <<"\"", "a", "\"", "\"", "a", "\"">>
    /\ outcome.kind = "Ok"
    /\ IsOneParam(outcome.args, <<"a", "\"", "a">>)

\* C8: with an escape char configured, an escape char read inside a param
\* that has started (quoted or unquoted) is not added to the value, and the
\* next character is appended literally without ending the param, be it
\* whitespace, the quote char or the escape char.
C8_Escaping ==
    (Returned /\ parser.escape_char # NoChar /\ line # <<>>) =>
        /\ (/\ line[1] \notin {parser.escape_char, parser.quote_char, " "}
            /\ WellEscaped(Tail(line), parser.escape_char, {" "})) =>
               /\ outcome.kind = "Ok"
               /\ IsOneParam(outcome.args,
                             <<line[1]>> \o Unescaped(Tail(line), parser.escape_char))
        /\ (/\ IsQuoted(line, parser.quote_char)
            /\ WellEscaped(Inner(line), parser.escape_char, {parser.quote_char})) =>
               /\ outcome.kind = "Ok"
               /\ IsOneParam(outcome.args, Unescaped(Inner(line), parser.escape_char))

\* the line a\ a was parsed, the escape char being \
C8_Witness ==
    /\ Returned
    /\ parser.escape_char = "\\"
    /\ line = <<"a", "\\", " ", "a">>
    /\ outcome.kind = "Ok"
    /\ IsOneParam(outcome.args, <<"a", " ", "a">>)

IsOneOption(results, code, value) ==
    /\ Len(results) = 1
    /\ results[1].kind = "Option"
    /\ results[1].code = code
    /\ results[1].value_text = SomeV(value)

\* C9: an option value whose first character is the quote char is read as
\* quoted: the value is the text between the enclosing quote chars,
\* whitespace inside does not end it, a doubled quote gives one quote char,
\* and a line ending before the closing quote fails with
\* OptionValueMissingClosingQuote.
C9_QuotedOptionValue ==
    (/\ Returned
     /\ parser.embed_quote_char_with_double
     /\ Len(line) >= 4
     /\ SubSeq(line, 1, 3) = <<"-", "a", " ">>
     /\ line[4] = parser.quote_char) =>
        LET text == SubSeq(line, 4, Len(line))
        IN  /\ (/\ IsQuoted(text, parser.quote_char)
                /\ WellDoubled(Inner(text), parser.quote_char, parser.escape_char)) =>
                   /\ outcome.kind = "Ok"
                   /\ IsOneOption(outcome.args, <<"a">>,
                                  Undoubled(Inner(text), parser.quote_char))
            /\ WellDoubled(Tail(text), parser.quote_char, parser.escape_char) =>
                   /\ outcome.kind = "Err"
                   /\ outcome.error = "OptionValueMissingClosingQuoteCharacter"

\* C10: when the input ends inside a quoted param whose closing quote has
\* not been read, also right after a doubled quote, parse fails with
\* ParamMissingClosingQuote and returns no results.
C10_MissingClosingQuote ==
    Returned =>
        /\ (/\ char_idx = Len(line)
            /\ parse_state.arg_parse_state = "InParam"
            /\ parse_state.value_quoted) =>
               /\ outcome.kind = "Err"
               /\ outcome.error = "ParamMissingClosingQuoteCharacter"
               /\ outcome.args = <<>>
        /\ (/\ line # <<>>
            /\ line[1] = parser.quote_char
            /\ parser.embed_quote_char_with_double
            /\ WellDoubled(Tail(line), parser.quote_char, parser.escape_char)) =>
               /\ outcome.kind = "Err"
               /\ outcome.error = "ParamMissingClosingQuoteCharacter"
               /\ outcome.args = <<>>

\* the input ended right after a doubled quote inside a quoted param
C10_Witness ==
    /\ Returned
    /\ line = <<"\"", "a", "\"", "\"">>
    /\ parser.embed_quote_char_with_double
    /\ parse_state.arg_parse_state = "InParam"
    /\ parse_state.value_quoted
    /\ outcome.kind = "Err"
    /\ outcome.error = "ParamMissingClosingQuoteCharacter"

----------------------------------------------------------------------------
(* Arguments for which no matcher of the list is eligible *)

\* the scan stands at the end of the line, or at a whitespace character
ScanAtEnd == phase = "Scanning" /\ char_idx = Len(line)
ScanAtWhitespace ==
    phase = "Scanning" /\ char_idx < Len(line) /\ IsWhitespace(line[char_idx + 1])
ArgEnds == ScanAtEnd \/ ScanAtWhitespace

\* the characters of the line read as the option code so far
RawCode == SubSeq(line, parse_state.start_idx + 1, char_idx)

\* the option and the param that the resolver is asked to match
OptionOccurrence(code, value) ==
    [ kind |-> "Option", arg_index |-> parse_state.arg_count,
      option_index |-> parse_state.option_count, code |-> code, value_text |-> value ]
ParamOccurrence(arg_index, text) ==
    [ kind |-> "Param", arg_index |-> arg_index,
      param_index |-> parse_state.param_count, value_text |-> text ]

NoneEligible(occurrence) ==
    parser.matchers # <<>> /\ EligibleMatchers(parser, occurrence) = {}

\* no matcher of the list accepts the code at this position, whatever the value
NoneAcceptsCode(code) ==
    /\ parser.matchers # <<>>
    /\ \A j \in 1..Len(parser.matchers) :
           ~TryMatchOptionExcludingValue(
                parser, [arg_count |-> parse_state.arg_count,
                         option_count |-> parse_state.option_count,
                         option_code |-> code],
                parser.matchers[j])

\* the step ends the parse with this error and without results
FailsWith(error_id) ==
    /\ phase' = "Done"
    /\ outcome'.kind = "Err"
    /\ outcome'.error = error_id
    /\ outcome'.args = <<>>

C11_Step ==
    LET ps == parse_state
        in_code == /\ ps.arg_parse_state = "InOption"
                   /\ ps.option_parse_state = "InCode"
                   /\ ~parser.multi_char_option_code_requires_double_announcer
        in_value == /\ ps.arg_parse_state = "InOption"
                    /\ ps.option_parse_state = "InValue"
                    /\ ~ps.value_quoted
        in_param == \/ ps.arg_parse_state = "InParam" /\ ~ps.value_quoted
                    \/ ps.arg_parse_state = "InParamPossibleEndQuote"
        with_value == OptionOccurrence(ps.option_code, SomeV(ps.value_bldr))
        without_value == OptionOccurrence(ps.option_code, NoneText)
    IN  /\ in_code /\ ArgEnds /\ NoneAcceptsCode(RawCode) => FailsWith("UnmatchedOption")
        /\ in_code /\ ScanAtEnd /\ NoneEligible(OptionOccurrence(RawCode, NoneText))
               => FailsWith("UnmatchedOption")
        /\ in_value /\ ArgEnds /\ NoneEligible(with_value)
             /\ (~ps.current_option_value_may_be_param \/ NoneEligible(without_value))
               => FailsWith("UnmatchedOption")
        /\ in_value /\ ArgEnds /\ NoneEligible(with_value)
             /\ ps.current_option_value_may_be_param /\ ~NoneEligible(without_value)
             /\ NoneEligible(ParamOccurrence(ps.arg_count + 1, ps.value_bldr))
               => FailsWith("UnmatchedParam")
        /\ in_param /\ ArgEnds /\ NoneEligible(ParamOccurrence(ps.arg_count, ps.value_bldr))
               => FailsWith("UnmatchedParam")

----------------------------------------------------------------------------
(* The matcher list: add_matcher, remove_matcher, clear_matchers *)

\* Vec::remove dropping the last element whatever the index
RemoveAt_Last(matchers, index) == SubSeq(matchers, 1, Len(matchers) - 1)

\* Vec::remove with an index in range: the elements after it move down by one
RemoveAt(matchers, index) ==
    [i \in 1..(Len(matchers) - 1) |-> IF i <= index THEN matchers[i] ELSE matchers[i + 1]]

\* the calls are made between parse calls: parse borrows the parser
\* Parser::add_matcher
AddMatcher(value) ==
    /\ phase = "Idle"
    /\ Len(parser.matchers) < MaxMatchers
    /\ parser' = [parser EXCEPT !.matchers = Append(@, value)]
    /\ last_call' = [op |-> "add_matcher", index |-> -1,
                     len_before |-> Len(parser.matchers), result |-> "Ok"]
    /\ UNCHANGED <<line, phase, char_idx, parse_state, args, outcome, other>>

\* Parser::remove_matcher: Vec::remove panics when the index is out of bounds
\* ("removal index (is ..) should be < len (is ..)"), before it changes the Vec
RemoveMatcher(index) ==
    /\ phase = "Idle"
    /\ IF index < Len(parser.matchers)
         THEN /\ parser' = [parser EXCEPT !.matchers = RemoveAt(@, index)]
              /\ last_call' = [op |-> "remove_matcher", index |-> index,
                               len_before |-> Len(parser.matchers), result |-> "Ok"]
              /\ UNCHANGED phase
         ELSE /\ UNCHANGED parser
              /\ last_call' = [op |-> "remove_matcher", index |-> index,
                               len_before |-> Len(parser.matchers),
                               result |-> "Panic: index out of bounds"]
              /\ phase' = "Panicked"
    /\ UNCHANGED <<line, char_idx, parse_state, args, outcome, other>>

\* Parser::clear_matchers
ClearMatchers ==
    /\ phase = "Idle"
    /\ parser' = [parser EXCEPT !.matchers = <<>>]
    /\ last_call' = [op |-> "clear_matchers", index |-> -1,
                     len_before |-> Len(parser.matchers), result |-> "Ok"]
    /\ UNCHANGED <<line, phase, char_idx, parse_state, args, outcome, other>>

RegistryChars == {"-", "a", " "}
RegistryPool == {MAny, MCodeA, MParam}

NextRegistry ==
    \/ \E value \in RegistryPool : AddMatcher(value)
    \/ \E index \in 0..MaxMatchers : RemoveMatcher(index)
    \/ ClearMatchers
    \/ Next

\* a new parser, on which matchers are added and removed before a line is parsed
InitRegistry ==
    /\ parser = NewParser
    /\ line \in Texts(RegistryChars, MaxLen)
    /\ phase = "Idle"
    /\ char_idx = 0
    /\ parse_state = NewParseState
    /\ args = <<>>
    /\ outcome = NoOutcome
    /\ last_call = NoRegistryCall
    /\ other = NoCall

SpecRegistry == InitRegistry /\ [][NextRegistry]_vars

\* C12: while the matcher list is empty (initially, and after clear_matchers
\* whatever was added and removed before), every result references the
\* fallback matcher and the parse never fails with UnmatchedOption or
\* UnmatchedParam; while the list is not empty no result references the
\* fallback matcher.
C12_Fallback ==
    /\ last_call.op = "clear_matchers" => parser.matchers = <<>>
    /\ \A i \in 1..Len(args) : args[i].matcher = FallbackRef <=> parser.matchers = <<>>
    /\ \A i \in 1..Len(outcome.args) :
           outcome.args[i].matcher = FallbackRef <=> parser.matchers = <<>>
    /\ parser.matchers = <<>> => outcome.error \notin {"UnmatchedOption", "UnmatchedParam"}

\* a line of a param and an option parsed after a list of two matchers was cleared
C12_Witness ==
    /\ Returned
    /\ last_call.op = "clear_matchers"
    /\ last_call.len_before = 2
    /\ outcome.kind = "Ok"
    /\ Len(outcome.args) = 2
    /\ outcome.args[1].kind = "Param"
    /\ outcome.args[2].kind = "Option"
    /\ \A i \in 1..2 : outcome.args[i].matcher = FallbackRef

C13_Step ==
    /\ \A index \in 0..MaxMatchers :
           RemoveMatcher(index) =>
               IF index >= Len(parser.matchers)
                 THEN /\ last_call'.result = "Panic: index out of bounds"
                      /\ parser' = parser
                 ELSE /\ last_call'.result = "Ok"
                      /\ parser'.matchers =
                             SubSeq(parser.matchers, 1, index)
                                 \o SubSeq(parser.matchers, index + 2, Len(parser.matchers))
    /\ \A value \in RegistryPool :
           AddMatcher(value) =>
               /\ Len(parser'.matchers) = Len(parser.matchers) + 1
               /\ parser'.matchers[Len(parser'.matchers)] = value
               /\ \A i \in 1..Len(parser.matchers) : parser'.matchers[i] = parser.matchers[i]

----------------------------------------------------------------------------
(* Option codes when multi_char_option_code_requires_double_announcer is set *)

CodeChars == {"-", "a", "b", " ", "="}

\* the characters a raw option code is made of here
RawCodeChars == {"-", "a", "b"}

InitCode ==
    /\ parser \in {[ParserWith(NoChar, va, TRUE, ms) EXCEPT
                       !.multi_char_option_code_requires_double_announcer = flag] :
                      va \in {{" "}, {"="}}, ms \in {<<>>, <<MAny>>}, flag \in BOOLEAN}
    /\ line \in Texts(CodeChars, MaxLen)
    /\ phase = "Idle"
    /\ char_idx = 0
    /\ parse_state = NewParseState
    /\ args = <<>>
    /\ outcome = NoOutcome
    /\ last_call = NoRegistryCall
    /\ other = NoCall

SpecCode == InitCode /\ [][Next]_vars

\* the line is one option: an announcer followed by a raw code of n or more characters
IsAnnouncedRawCode(n) ==
    /\ Len(line) >= n + 1
    /\ line[1] \in parser.option_announcer_chars
    /\ \A i \in 2..Len(line) : line[i] \in RawCodeChars

\* C14: with multi_char_option_code_requires_double_announcer set, a raw
\* option code of two or more characters that does not start with the
\* announcer char that opened the option makes the parse fail with
\* OptionCodeMissingDoubleAnnouncer.
C14_MultiCharCode ==
    /\ Returned
    /\ parser.multi_char_option_code_requires_double_announcer
    /\ IsAnnouncedRawCode(2)
    /\ line[2] # line[1]
    => /\ outcome.kind = "Err"
       /\ outcome.error = "OptionCodeMissingDoubleAnnouncer"

\* C15: with multi_char_option_code_requires_double_announcer set, a raw
\* option code of exactly one character that is not the announcer is accepted
\* as the code, without error; a raw code that is exactly the announcer char
\* gives the empty code.
C15_SingleCharCode ==
    /\ Returned
    /\ parser.multi_char_option_code_requires_double_announcer
    /\ IsAnnouncedRawCode(1)
    /\ Len(line) = 2
    => IF line[2] = line[1]
         THEN parse_state.option_code = <<>>
         ELSE /\ outcome.kind = "Ok"
              /\ Len(outcome.args) = 1
              /\ outcome.args[1].kind = "Option"
              /\ outcome.args[1].code = <<line[2]>>

----------------------------------------------------------------------------
(* The three case sensitivity settings *)

CaseChars == {"-", "a", "A", " "}

MValueA == [NewMatcher("value a") EXCEPT !.value_text = SomeV(<<"a">>)]

InitCase ==
    /\ parser \in {[ParserWith(NoChar, {" "}, TRUE, ms) EXCEPT
                       !.option_codes_case_sensitive = codes,
                       !.option_values_case_sensitive = values,
                       !.params_case_sensitive = params] :
                      ms \in {<<MValueA>>, <<MCodeA>>, <<MCodeAValueA, MParam>>},
                      codes \in BOOLEAN, values \in BOOLEAN, params \in BOOLEAN}
    /\ line \in Texts(CaseChars, MaxLen)
    /\ phase = "Idle"
    /\ char_idx = 0
    /\ parse_state = NewParseState
    /\ args = <<>>
    /\ outcome = NoOutcome
    /\ last_call = NoRegistryCall
    /\ other = NoCall

SpecCase == InitCase /\ [][Next]_vars

\* the line is one unquoted text without announcers
IsPlainText(ln) == ln # <<>> /\ \A i \in 1..Len(ln) : ln[i] \in {"a", "A"}

\* the same parser with option_codes_case_sensitive changed
OtherCodeCase(self) ==
    [self EXCEPT !.option_codes_case_sensitive = ~self.option_codes_case_sensitive]

\* C16: the three case settings are independent.  A param is matched against
\* a matcher's value pattern under params_case_sensitive and an option value
\* under option_values_case_sensitive; with matchers that filter on no option
\* code, changing option_codes_case_sensitive alone changes nothing in the
\* outcome of the parse.
C16_CaseFlags ==
    Returned =>
        /\ parser.matchers = <<MValueA>> /\ IsPlainText(line)
               => (outcome.kind = "Ok" <=> IsMatch(<<"a">>, line, parser.params_case_sensitive))
        /\ (/\ parser.matchers = <<MValueA>>
            /\ Len(line) > 3
            /\ SubSeq(line, 1, 3) = <<"-", "a", " ">>
            /\ IsPlainText(SubSeq(line, 4, Len(line))))
               => (outcome.kind = "Ok" <=>
                       IsMatch(<<"a">>, SubSeq(line, 4, Len(line)),
                               parser.option_values_case_sensitive))
        /\ (\A j \in 1..Len(parser.matchers) : ~parser.matchers[j].option_codes.some)
               => outcome = Parse(OtherCodeCase(parser), line)

----------------------------------------------------------------------------
(* Lines without arguments *)

\* C17: the empty line and every line of whitespace only parse to the empty
\* result sequence, without error, whatever the configuration and the
\* matcher list.
C17_EmptyLine ==
    Returned /\ (\A i \in 1..Len(line) : line[i] = " ")
        => outcome.kind = "Ok" /\ outcome.args = <<>>

\* a line of two spaces parsed with a matcher list that accepts few arguments
C17_Witness ==
    /\ Returned
    /\ line = <<" ", " ">>
    /\ parser.matchers = <<MDash>>
    /\ outcome.kind = "Ok"
    /\ outcome.args = <<>>

----------------------------------------------------------------------------
(* Two parse calls on one parser *)

MaxConcLen == 3

\* the locals of the second call
OtherFrame ==
    [ps |-> other.parse_state, args |-> other.args, status |-> "Ok", error |-> "",
     info |-> NoInfo, more |-> TRUE]

\* the second call is made: it creates its own ParseState and args vector
OtherBeginParse ==
    /\ other.phase = "Idle"
    /\ other' = [ line |-> other.line, phase |-> "Scanning", char_idx |-> 0,
                   parse_state |-> NewParseState, args |-> <<>>, outcome |-> NoOutcome ]
    /\ UNCHANGED <<parser, line, phase, char_idx, parse_state, args, outcome, last_call>>

\* one iteration of the scan loop of the second call
OtherScanChar ==
    /\ other.phase = "Scanning"
    /\ other.char_idx < Len(other.line)
    /\ LET r == ProcessChar(parser, OtherFrame, other.line, other.char_idx,
                            other.line[other.char_idx + 1])
       IN  other' =
               IF r.status # "Ok"
                 THEN [other EXCEPT !.parse_state = r.ps, !.args = r.args,
                                    !.outcome = OutcomeOf(r), !.phase = "Done"]
                 ELSE IF r.more
                   THEN [other EXCEPT !.parse_state = r.ps, !.args = r.args,
                                      !.char_idx = @ + 1]
                   ELSE [other EXCEPT !.parse_state = r.ps, !.args = r.args,
                                      !.phase = "Finalizing"]
    /\ UNCHANGED <<parser, line, phase, char_idx, parse_state, args, outcome, last_call>>

\* the loop of the second call is over: it finalizes and returns
OtherEndOfInput ==
    /\ \/ other.phase = "Finalizing"
       \/ other.phase = "Scanning" /\ other.char_idx = Len(other.line)
    /\ LET r == EndOfLine(parser, OtherFrame, other.line)
       IN  other' = [other EXCEPT !.parse_state = r.ps, !.args = r.args,
                                  !.outcome = OutcomeOf(r), !.phase = "Done"]
    /\ UNCHANGED <<parser, line, phase, char_idx, parse_state, args, outcome, last_call>>

NextConcurrent == Next \/ OtherBeginParse \/ OtherScanChar \/ OtherEndOfInput

ConcChars == {"-", "a", " "}

InitConcurrent ==
    /\ parser \in {ParserWith(NoChar, {" "}, TRUE, ms) : ms \in {<<>>, <<MCodeA, MParam>>}}
    /\ line \in Texts(ConcChars, MaxConcLen)
    /\ phase = "Idle"
    /\ char_idx = 0
    /\ parse_state = NewParseState
    /\ args = <<>>
    /\ outcome = NoOutcome
    /\ last_call = NoRegistryCall
    /\ other \in {[phase |-> "Idle", line |-> ln] : ln \in Texts(ConcChars, MaxConcLen)}

SpecConcurrent == InitConcurrent /\ [][NextConcurrent]_vars

AloneOutcomes ==
    /\ Returned => outcome = Parse(parser, line)
    /\ other.phase = "Done" => other.outcome = Parse(parser, other.line)

\* C18: two parse calls on the same parser whose character steps interleave
\* in any order each return what the call returns when it runs alone; no
\* step of a parse call changes the configuration or the matcher list.
C18_Concurrent == [](AloneOutcomes) /\ [][parser' = parser]_vars

\* both calls are in the middle of their scans, on different lines, and one
\* of them has built a result already
C18_Witness ==
    /\ phase = "Scanning"
    /\ other.phase = "Scanning"
    /\ char_idx = 2
    /\ other.char_idx = 2
    /\ line # other.line
    /\ Len(args) = 1
    /\ other.args = <<>>

----------------------------------------------------------------------------
(* What an error carries *)

ParamErrors ==
    { "UnmatchedParam", "ParamMissingClosingQuoteCharacter",
      "InvalidEscapedCharacterInParam", "QuotedParamNotFollowedByWhitespaceChar" }

\* C19: every error carries the character offset and the arg ordinal
\* current when it was raised; an error about an option carries the option
\* ordinal and the offending code, an error about a param carries the param
\* ordinal, which is the param counter, and the offending value text.
C19_ErrorContext ==
    /\ Returned /\ outcome.kind = "Err" =>
           /\ outcome.info.line_char_idx = SomeV(char_idx)
           /\ outcome.info.arg_index = SomeV(parse_state.arg_count)
           /\ IF outcome.error \in ParamErrors
                THEN /\ outcome.info.param_index = SomeV(parse_state.param_count)
                     /\ outcome.info.value_text = SomeV(parse_state.value_bldr)
                ELSE /\ outcome.info.option_index = SomeV(parse_state.option_count)
                     /\ outcome.info.code = SomeV(parse_state.option_code)
    /\ CreateParamError(Frame, "UnmatchedParam", char_idx).info.param_index
           = SomeV(parse_state.param_count)

----------------------------------------------------------------------------
(* The end of input against one trailing whitespace character *)

\* the same result sequence, or the same kind of error
SameOutcome(o1, o2) == o1.kind = o2.kind /\ o1.args = o2.args /\ o1.error = o2.error

\* the call returned after its scan reached the end of the line in this
\* state (an Err or a break inside the loop leaves char_idx before the end,
\* and the final match does not change the scanner state)
EndsIn(arg_parse_state, option_parse_state) ==
    /\ Returned
    /\ char_idx = Len(line)
    /\ parse_state.arg_parse_state = arg_parse_state
    /\ arg_parse_state = "InOption" => parse_state.option_parse_state = option_parse_state

\* the scan ends inside an open quote, on a dangling escape or on a bare announcer
EndsOpen ==
    \/ EndsIn("InParam", "") /\ parse_state.value_quoted
    \/ EndsIn("InOption", "InValue") /\ parse_state.value_quoted
    \/ EndsIn("InParamEscaped", "")
    \/ EndsIn("InOption", "InValueEscaped")
    \/ EndsIn("InOption", "Announced")

WithTrailingWhitespace == Parse(parser, line \o <<" ">>)

\* matchers that take a value always, for one code, and for params only,
\* with whitespace as value announcer and without
EndPool == {MAlways, MCodeA, MParam}

InitEnd ==
    /\ parser \in {ParserWith(NoChar, va, TRUE, ms) :
                      va \in {{" "}, {"="}},
                      ms \in UNION {[1..k -> EndPool] : k \in 0..MaxMatchers}}
    /\ line \in Texts(MatchChars, MaxLen)
    /\ phase = "Idle"
    /\ char_idx = 0
    /\ parse_state = NewParseState
    /\ args = <<>>
    /\ outcome = NoOutcome
    /\ last_call = NoRegistryCall
    /\ other = NoCall

SpecEnd == InitEnd /\ [][Next]_vars

----------------------------------------------------------------------------
(* The default configuration: Parser::new and no matcher added *)

MaxDefaultLen == 5

InitDefault ==
    /\ parser = NewParser
    /\ line \in Texts(MatchChars, MaxDefaultLen)
    /\ phase = "Idle"
    /\ char_idx = 0
    /\ parse_state = NewParseState
    /\ args = <<>>
    /\ outcome = NoOutcome
    /\ last_call = NoRegistryCall
    /\ other = NoCall

SpecDefault == InitDefault /\ [][Next]_vars

\* the value of an Option begins with an option announcer char
ValueStartsWithAnnouncer(result) ==
    /\ result.kind = "Option"
    /\ result.value_text.some
    /\ result.value_text.v # <<>>
    /\ result.value_text.v[1] \in parser.option_announcer_chars

\* two Options without value, with the codes given
IsTwoOptions(results, code1, code2) ==
    /\ Len(results) = 2
    /\ \A i \in 1..2 : results[i].kind = "Option" /\ ~results[i].value_text.some
    /\ results[1].code = code1
    /\ results[2].code = code2

\* C21: with the default configuration and no matchers, an unquoted argument
\* that begins with an option announcer char and follows an option is parsed
\* as a new Option and never as the value of the option before it: no Option
\* is returned whose value begins with an announcer char, and `-a -b` yields
\* Option(a, no value) then Option(b, no value).
C21_AnnouncerStartsOption ==
    (Returned /\ parser = NewParser) =>
        /\ outcome.kind = "Ok" =>
               \A i \in 1..Len(outcome.args) : ~ValueStartsWithAnnouncer(outcome.args[i])
        /\ line = <<"-", "a", " ", "-", "b">> =>
               outcome.kind = "Ok" /\ IsTwoOptions(outcome.args, <<"a">>, <<"b">>)

----------------------------------------------------------------------------
(* Params and option announcer chars *)

\* the line holds no quote char: every argument of it is unquoted
NoQuoteInLine == \A i \in 1..Len(line) : line[i] # parser.quote_char

\* the text of a Param begins with an option announcer char
ParamStartsWithAnnouncer(result) ==
    /\ result.kind = "Param"
    /\ result.value_text # <<>>
    /\ result.value_text[1] \in parser.option_announcer_chars

\* C22: with params_can_start_with_option_announcer_char = false no Param is
\* emitted whose text came from an unquoted argument beginning with an
\* option announcer char, on any path of the scan, the second attempt of
\* match_option_arg (option without value, then the value as a Param)
\* included.
C22_NoAnnouncerParam ==
    (~parser.params_can_start_with_option_announcer_char /\ NoQuoteInLine) =>
        \A i \in 1..Len(args) : ~ParamStartsWithAnnouncer(args[i])

----------------------------------------------------------------------------
(* The second attempt of match_option_arg *)

\* an unquoted option value is complete
ValueEnds ==
    /\ ArgEnds
    /\ parse_state.arg_parse_state = "InOption"
    /\ parse_state.option_parse_state = "InValue"
    /\ ~parse_state.value_quoted

\* the option with the value read, the option without it, and the value as
\* the param that follows the option
WithValue == OptionOccurrence(parse_state.option_code, SomeV(parse_state.value_bldr))
WithoutValue == OptionOccurrence(parse_state.option_code, NoneText)
ValueAsParam == ParamOccurrence(parse_state.arg_count + 1, parse_state.value_bldr)

\* no matcher accepts (code, value) and the value may have been a param
SecondAttempt ==
    /\ ValueEnds
    /\ parse_state.current_option_value_may_be_param
    /\ NoneEligible(WithValue)

\* the step emits the option without value, then the value as a param
EmitsOptionThenParam ==
    /\ Len(args') = Len(args) + 2
    /\ SubSeq(args', 1, Len(args)) = args
    /\ LET option == args'[Len(args) + 1]
           param == args'[Len(args) + 2]
       IN  /\ option.kind = "Option"
           /\ option.code = parse_state.option_code
           /\ option.value_text = NoneText
           /\ option.matcher \in EligibleMatchers(parser, WithoutValue)
           /\ param.kind = "Param"
           /\ param.value_text = parse_state.value_bldr
           /\ param.arg_index = option.arg_index + 1
           /\ param.matcher \in EligibleMatchers(parser, ValueAsParam)
    /\ outcome'.kind # "Err"

\* C23, as claimed: when no matcher accepts (code, value), the second
\* attempt emits the option without value and resolves the buffered text as
\* a Param; if no matcher is eligible for that Param the parse fails with
\* UnmatchedOption and returns no results.
C23_AsClaimed ==
    [][(SecondAttempt /\ ~NoneEligible(WithoutValue) /\ NoneEligible(ValueAsParam))
           => FailsWith("UnmatchedOption")]_vars

C23_Step ==
    /\ (SecondAttempt /\ ~NoneEligible(WithoutValue) /\ ~NoneEligible(ValueAsParam))
           => EmitsOptionThenParam
    /\ (SecondAttempt /\ ~NoneEligible(WithoutValue) /\ NoneEligible(ValueAsParam))
           => FailsWith("UnmatchedParam")
    /\ (SecondAttempt /\ NoneEligible(WithoutValue)) => FailsWith("UnmatchedOption")

\* C23, amended: when no matcher accepts (code, value) and the value may
\* have been a param, the second attempt emits the option without value and
\* resolves the buffered text as a Param with the next arg ordinal; if no
\* matcher is eligible for that Param the parse fails with UnmatchedParam
\* and returns no results; it fails with UnmatchedOption, again without
\* results, when no matcher is eligible for the option without value.
C23_RetryFailure == [][C23_Step]_vars

\* `-a b` against the matcher for code a with value a: the option is
\* emitted without value, b finds no matcher as a param
C23_Witness ==
    /\ Returned
    /\ parser.matchers = <<MCodeAValueA>>
    /\ line = <<"-", "a", " ", "b">>
    /\ parse_state.option_parse_state = "InValue"
    /\ parse_state.current_option_value_may_be_param
    /\ Len(args) = 1 /\ args[1].kind = "Option" /\ args[1].value_text = NoneText
    /\ outcome.kind = "Err"
    /\ outcome.error = "UnmatchedParam"
    /\ outcome.args = <<>>

----------------------------------------------------------------------------
(* When the second attempt is made *)

MAlwaysValueA == [NewMatcher("always, value a") EXCEPT
                     !.option_has_value = SomeV("AlwaysAndValueCanStartWithOptionAnnouncer"),
                     !.value_text = SomeV(<<"a">>)]

RetryChars == {"-", "a", "b", " ", "="}

RetryPool == {MAlwaysValueA, MCodeAValueA, MNever}

\* whitespace and = both announce a value
InitRetry ==
    /\ parser \in {ParserWith(NoChar, {" ", "="}, TRUE, ms) :
                      ms \in UNION {[1..k -> RetryPool] : k \in 0..MaxMatchers}}
    /\ line \in Texts(RetryChars, MaxLen)
    /\ phase = "Idle"
    /\ char_idx = 0
    /\ parse_state = NewParseState
    /\ args = <<>>
    /\ outcome = NoOutcome
    /\ last_call = NoRegistryCall
    /\ other = NoCall

SpecRetry == InitRetry /\ [][Next]_vars

\* some matcher eligible for the option (position and code) has an Always policy
AlwaysEligible ==
    \E j \in 1..Len(parser.matchers) :
        /\ TryMatchOptionExcludingValue(parser, parse_state, parser.matchers[j])
        /\ OptionHasValueOf(parser.matchers[j]) \in
               {"AlwaysAndValueCanStartWithOptionAnnouncer",
                "AlwaysButValueMustNotStartWithOptionAnnouncer"}

InValueOfOption ==
    /\ phase = "Scanning"
    /\ parse_state.arg_parse_state = "InOption"
    /\ parse_state.option_parse_state = "InValue"

\* C24, as claimed: whenever the value announcer that ended the code was
\* whitespace and no matcher accepts (code, value), the occurrence is
\* retried as an option without value followed by a Param, also when some
\* eligible matcher has an Always policy; the parse fails with
\* UnmatchedOption without a second attempt only when the value announcer
\* was not whitespace.
C24_AsClaimed ==
    [][/\ (/\ ValueEnds /\ NoneEligible(WithValue)
           /\ parse_state.option_value_announcer_is_ambiguous
           /\ ~NoneEligible(WithoutValue) /\ ~NoneEligible(ValueAsParam))
              => EmitsOptionThenParam
       /\ (/\ ValueEnds /\ NoneEligible(WithValue)
           /\ ~parse_state.option_value_announcer_is_ambiguous)
              => FailsWith("UnmatchedOption")]_vars

\* while a value is scanned, the value may be a param exactly when the
\* announcer was whitespace and no eligible matcher has an Always policy
MayBeParamWhenPossibly ==
    (InValueOfOption /\ parser.matchers # <<>>) =>
        (parse_state.current_option_value_may_be_param
            <=> (parse_state.option_value_announcer_is_ambiguous /\ ~AlwaysEligible))

C24_Step ==
    /\ (/\ ValueEnds /\ NoneEligible(WithValue)
        /\ parse_state.current_option_value_may_be_param
        /\ ~NoneEligible(WithoutValue) /\ ~NoneEligible(ValueAsParam))
           => EmitsOptionThenParam
    /\ (/\ ValueEnds /\ NoneEligible(WithValue)
        /\ ~parse_state.current_option_value_may_be_param)
           => FailsWith("UnmatchedOption")

\* C24, amended: when no matcher accepts (code, captured value), the parse
\* retries the occurrence as a value-less option followed by a Param exactly
\* when the value decision was Possibly, that is when the value announcer
\* was whitespace and no matcher eligible for the position and code has an
\* Always policy; when the decision was Must (the announcer was not
\* whitespace, or some eligible matcher has an Always policy) it fails with
\* UnmatchedOption without retrying.
C24_RetryTrigger == [](MayBeParamWhenPossibly) /\ [][C24_Step]_vars

\* `-a b` against [Always with value a, Never]: whitespace announced the
\* value, the decision was Must, and the parse failed without a second
\* attempt although the Never matcher takes the option without value and b
\* as a param
C24_Witness ==
    /\ Returned
    /\ parser.matchers = <<MAlwaysValueA, MNever>>
    /\ line = <<"-", "a", " ", "b">>
    /\ parse_state.option_value_announcer_is_ambiguous
    /\ ~parse_state.current_option_value_may_be_param
    /\ args = <<>>
    /\ outcome.kind = "Err"
    /\ outcome.error = "UnmatchedOption"

----------------------------------------------------------------------------
(* The end of the line while an option awaits its value *)

\* the scan loop is over and the option awaits its value
AwaitsValueAtEnd ==
    /\ ScanAtEnd
    /\ parse_state.arg_parse_state = "InOption"
    /\ parse_state.option_parse_state = "WaitOptionValue"

\* the decision made with no first character
DecisionAtEnd == CanOptionHaveValueWithFirstChar(parser, parse_state, FALSE)

\* the step completes the option: one more result, an Option with the code
\* read, and parse returns the results
EmitsTheOption ==
    /\ Len(args') = Len(args) + 1
    /\ SubSeq(args', 1, Len(args)) = args
    /\ args'[Len(args) + 1].kind = "Option"
    /\ args'[Len(args) + 1].code = parse_state.option_code
    /\ phase' = "Done"
    /\ outcome'.kind = "Ok"
    /\ outcome'.args = args'

\* C25, as claimed: when the input ends while an option awaits its value,
\* the decision is made again with no first character and the option is
\* completed and emitted in every case, without value when the decision is
\* Possibly or MustNot; the end of input in this state is no error.
C25_AsClaimed ==
    [][AwaitsValueAtEnd =>
           /\ EmitsTheOption
           /\ DecisionAtEnd \in {"Possibly", "MustNot"}
                  => args'[Len(args) + 1].value_text = NoneText]_vars

C25_Step ==
    AwaitsValueAtEnd =>
        /\ DecisionAtEnd \in {"Must", "Possibly", "MustNot", "Panic"}
        /\ DecisionAtEnd \in {"Possibly", "MustNot"} =>
               EmitsTheOption /\ args'[Len(args) + 1].value_text = NoneText
        /\ DecisionAtEnd = "Must" => FailsWith("NoMatchSupportsValueForOptionCode")
        /\ DecisionAtEnd = "Panic" => phase' = "Done" /\ outcome'.kind = "Panic"

\* C25, amended: when the input ends while an option awaits its value, the
\* decision is made again with no first character; when it is Possibly or
\* MustNot the option is completed and emitted without value; when it is
\* Must the parse fails with NoMatchSupportsValueForOptionCode and returns
\* no results; the decision never is an error, and when it does not come
\* back (the unreachable! branch for an eligible Never matcher) parse panics.
C25_AwaitingAtEnd == [][C25_Step]_vars

\* `-a=` with no matcher: = is not whitespace, the fallback matcher answers
\* Must, and the end of the line is the error
C25_Witness ==
    /\ Returned
    /\ parser.matchers = <<>>
    /\ line = <<"-", "a", "=">>
    /\ parse_state.option_parse_state = "WaitOptionValue"
    /\ outcome.kind = "Err"
    /\ outcome.error = "NoMatchSupportsValueForOptionCode"
    /\ outcome.args = <<>>

----------------------------------------------------------------------------
(* The decision on the first character of a value *)

MAlwaysNotAnnouncer == [NewMatcher("always, no announcer") EXCEPT
                           !.option_has_value =
                               SomeV("AlwaysButValueMustNotStartWithOptionAnnouncer")]

DecisionChars == {"-", "a", " ", "="}

DecisionPool == {MAlways, MAlwaysNotAnnouncer, MAny}

InitDecision ==
    /\ parser \in {ParserWith(NoChar, va, TRUE, ms) :
                      va \in {{" "}, {" ", "="}},
                      ms \in UNION {[1..k -> DecisionPool] : k \in 0..MaxMatchers}}
    /\ line \in Texts(DecisionChars, MaxLen)
    /\ phase = "Idle"
    /\ char_idx = 0
    /\ parse_state = NewParseState
    /\ args = <<>>
    /\ outcome = NoOutcome
    /\ last_call = NoRegistryCall
    /\ other = NoCall

SpecDecision == InitDecision /\ [][Next]_vars

\* the scan stands at the first non-whitespace character after a value announcer
AtFirstCharOfValue ==
    /\ phase = "Scanning"
    /\ char_idx < Len(line)
    /\ parse_state.arg_parse_state = "InOption"
    /\ parse_state.option_parse_state = "WaitOptionValue"
    /\ ~IsWhitespace(line[char_idx + 1])

\* that character is an announcer, as the scanner asks it
FirstCharIsAnnouncer == line[char_idx + 1] \in parser.option_value_announcer_chars

\* the matchers that decide: the list, or the fallback matcher alone
DecidingMatchers ==
    IF parser.matchers = <<>> THEN {parser.fallback_matcher}
                              ELSE {parser.matchers[j] : j \in 1..Len(parser.matchers)}

\* a matcher eligible for the position and code requires a value
RequiresValue(matcher) ==
    /\ TryMatchOptionExcludingValue(parser, parse_state, matcher)
    /\ \/ OptionHasValueOf(matcher) \in {"AlwaysAndValueCanStartWithOptionAnnouncer",
                                          "AlwaysButValueMustNotStartWithOptionAnnouncer"}
       \/ /\ OptionHasValueOf(matcher) = "IfPossible"
          /\ ~parse_state.option_value_announcer_is_ambiguous

\* a matcher that requires a value permits the first character
PermitsFirstChar(matcher) ==
    \/ OptionHasValueOf(matcher) = "AlwaysAndValueCanStartWithOptionAnnouncer"
    \/ ~FirstCharIsAnnouncer

DecisionAtFirstChar ==
    CanOptionHaveValueWithFirstChar(parser, parse_state, FirstCharIsAnnouncer)

\* C26: on the first non-whitespace character after a value announcer the
\* decision is Must whenever some eligible matcher requires a value and
\* permits that character, wherever the matcher sits in the list;
\* OptionValueCannotBeginWithOptionAnnouncer is raised only when a value is
\* required and every matcher requiring it forbids the leading announcer.
C26_DecisionPrecedence ==
    AtFirstCharOfValue =>
        /\ (\E m \in DecidingMatchers : RequiresValue(m) /\ PermitsFirstChar(m))
               => DecisionAtFirstChar = "Must"
        /\ DecisionAtFirstChar = "Err" =>
               /\ \E m \in DecidingMatchers : RequiresValue(m)
               /\ \A m \in DecidingMatchers : RequiresValue(m) => ~PermitsFirstChar(m)

----------------------------------------------------------------------------
(* An option code ended by a value announcer *)

\* the code as set_option_code finalizes it at the character the scan stands at
CodeAtBoundary == SetOptionCode(parser, Frame, line, char_idx)

\* the scan stands at a value announcer that ends an option code, and the
\* code finalized is not empty
CodeEndsAtAnnouncer ==
    /\ phase = "Scanning"
    /\ char_idx < Len(line)
    /\ parse_state.arg_parse_state = "InOption"
    /\ parse_state.option_parse_state = "InCode"
    /\ line[char_idx + 1] \in parser.option_value_announcer_chars
    /\ CodeAtBoundary.status = "Ok"
    /\ CodeAtBoundary.ps.option_code # <<>>

\* the matchers of DecidingMatchers eligible for the position and the code
EligibleForCode ==
    {m \in DecidingMatchers : TryMatchOptionExcludingValue(parser, CodeAtBoundary.ps, m)}

\* the step completes the option without value and leaves the argument
EmitsValuelessAtOnce ==
    /\ Len(args') = Len(args) + 1
    /\ SubSeq(args', 1, Len(args)) = args
    /\ args'[Len(args) + 1].kind = "Option"
    /\ args'[Len(args) + 1].code = CodeAtBoundary.ps.option_code
    /\ args'[Len(args) + 1].value_text = NoneText
    /\ parse_state'.arg_parse_state = "NotInArg"
    /\ phase' = "Scanning"

\* the step makes the scanner await the value and emits nothing
AwaitsValue ==
    /\ args' = args
    /\ parse_state'.arg_parse_state = "InOption"
    /\ parse_state'.option_parse_state = "WaitOptionValue"
    /\ parse_state'.option_code = CodeAtBoundary.ps.option_code
    /\ parse_state'.option_value_announcer_is_ambiguous = IsWhitespace(line[char_idx + 1])
    /\ phase' = "Scanning"

\* C27, as claimed: when a value announcer ends an option code and no
\* eligible matcher (nor the fallback of an empty list) has a policy other
\* than Never, the option is emitted without value at once and the scanner
\* is outside an argument again if the announcer is whitespace, and parse
\* fails with NoMatchSupportsValueForOptionCode if it is not; when some
\* eligible matcher has another policy the scanner awaits the value.
C27_AsClaimed ==
    [][CodeEndsAtAnnouncer =>
           IF \E m \in EligibleForCode : OptionHasValueOf(m) # "Never"
             THEN AwaitsValue
             ELSE IF IsWhitespace(line[char_idx + 1])
                    THEN EmitsValuelessAtOnce
                    ELSE FailsWith("NoMatchSupportsValueForOptionCode")]_vars

C27_Step ==
    CodeEndsAtAnnouncer =>
        IF \E m \in EligibleForCode : OptionHasValueOf(m) # "Never"
          THEN AwaitsValue
          ELSE IF IsWhitespace(line[char_idx + 1])
                 THEN IF EligibleForCode # {}
                        THEN EmitsValuelessAtOnce
                        ELSE FailsWith("UnmatchedOption")
                 ELSE FailsWith("NoMatchSupportsValueForOptionCode")

\* C27, amended: when a value announcer ends an option code and no eligible
\* matcher (nor the fallback of an empty list) has a policy other than
\* Never: if the announcer is whitespace the option is resolved without
\* value at once, which emits it and puts the scanner outside an argument
\* when some matcher is eligible (each with policy Never) and fails with
\* UnmatchedOption when none is eligible; if the announcer is not whitespace
\* parse fails with NoMatchSupportsValueForOptionCode.  When some eligible
\* matcher has another policy the scanner awaits the value and emits nothing.
C27_CodeEndsAtAnnouncer == [][C27_Step]_vars

\* `-a ` against the single matcher Never: the option was emitted at the space
C27_Witness ==
    /\ phase = "Scanning"
    /\ parser.matchers = <<MNever>>
    /\ Len(line) >= 3
    /\ SubSeq(line, 1, 3) = <<"-", "a", " ">>
    /\ char_idx = 3
    /\ parse_state.arg_parse_state = "NotInArg"
    /\ Len(args) = 1
    /\ args[1].kind = "Option" /\ args[1].code = <<"a">> /\ args[1].value_text = NoneText

----------------------------------------------------------------------------
(* The matcher a result references *)

\* the filters of a matcher, taken one by one against a result: the ordinals
\* and the kind the result records, the code under the setting for codes,
\* the value under the setting for option values or for params; the policy
\* bears on Options only
AcceptsResult(self, matcher, result) ==
    /\ matcher.arg_indices.some => result.arg_index \in matcher.arg_indices.v
    /\ matcher.option_or_parameter.some =>
           matcher.option_or_parameter.v =
               (IF result.kind = "Option" THEN "Option" ELSE "Parameter")
    /\ result.kind = "Option" =>
           /\ matcher.option_indices.some => result.option_index \in matcher.option_indices.v
           /\ matcher.option_codes.some =>
                  \E code \in matcher.option_codes.v :
                      IsMatch(code, result.code, self.option_codes_case_sensitive)
           /\ OptionHasValueOf(matcher) = "Never" => ~result.value_text.some
           /\ OptionHasValueOf(matcher) \in
                  {"AlwaysAndValueCanStartWithOptionAnnouncer",
                   "AlwaysButValueMustNotStartWithOptionAnnouncer"} => result.value_text.some
           /\ (result.value_text.some /\ matcher.value_text.some) =>
                  IsMatch(matcher.value_text.v, result.value_text.v,
                          self.option_values_case_sensitive)
    /\ result.kind = "Param" =>
           /\ matcher.param_indices.some => result.param_index \in matcher.param_indices.v
           /\ matcher.value_text.some =>
                  IsMatch(matcher.value_text.v, result.value_text, self.params_case_sensitive)

\* C28: in every successful parse with a non-empty matcher list each result
\* references a matcher of the list that is eligible for it at the ordinals
\* the result records: the arg-ordinal, kind, option- or param-ordinal and
\* code filters hold, a matcher with policy Never is referenced by no Option
\* with a value, a matcher with an Always policy by no Option without one,
\* and a value present matches the matcher's value-text pattern.
C28_ResolverSound ==
    (Returned /\ outcome.kind = "Ok" /\ parser.matchers # <<>>) =>
        \A i \in 1..Len(outcome.args) :
            /\ outcome.args[i].matcher \in 1..Len(parser.matchers)
            /\ AcceptsResult(parser, parser.matchers[outcome.args[i].matcher],
                             outcome.args[i])

----------------------------------------------------------------------------
(* Options and the empty code *)

\* C29: no Option with an empty code text is ever emitted: whenever the
\* finalization of the code yields the empty code, at a boundary character
\* or at the end of input, the parse fails with NoCodeAfterOptionAnnouncer
\* instead.
C29_NoEmptyCode ==
    /\ \A i \in 1..Len(args) : args[i].kind = "Option" => args[i].code # <<>>
    /\ (/\ Returned
        /\ parse_state.arg_parse_state = "InOption"
        /\ parse_state.option_parse_state = "InCode"
        /\ parse_state.option_code = <<>>)
           => outcome.kind = "Err" /\ outcome.error = "NoCodeAfterOptionAnnouncer"

----------------------------------------------------------------------------
(* Start offsets *)

\* the result's start offset is the index of the first character of its
\* argument: the announcer of an Option, the opening quote or the first
\* character of the text of a Param
StartsAtItsArgument(result) ==
    /\ result.line_char_index < Len(line)
    /\ LET first == line[result.line_char_index + 1]
       IN  IF result.kind = "Option"
             THEN first \in parser.option_announcer_chars
             ELSE \/ first = parser.quote_char
                  \/ result.value_text # <<>> /\ first = result.value_text[1]

\* C30: in every successful parse the start offsets of the results increase
\* strictly along the result sequence, and each start offset is the index
\* of the first character of its argument in the line, also for a Param
\* that the second attempt of match_option_arg produced: its start offset
\* is where its own text begins, not where the option before it begins.
C30_StartOffsets ==
    (Returned /\ outcome.kind = "Ok") =>
        \A i \in 1..Len(outcome.args) :
            /\ StartsAtItsArgument(outcome.args[i])
            /\ i > 1 => outcome.args[i].line_char_index
                            > outcome.args[i - 1].line_char_index

-----------------------------------------------------------------------------
(* Lines with characters of more than one byte *)

Utf8Chars == {"-", "a", "é", " "}

InitUtf8 ==
    /\ parser = NewParser
    /\ line \in Texts(Utf8Chars, MaxLen)
    /\ phase = "Idle"
    /\ char_idx = 0
    /\ parse_state = NewParseState
    /\ args = <<>>
    /\ outcome = NoOutcome
    /\ last_call = NoRegistryCall
    /\ other = NoCall

SpecUtf8 == InitUtf8 /\ [][Next]_vars

\* the character at the code-point index idx of the line ends an option code
IsCodeBoundary(idx) ==
    \/ idx >= Len(line)
    \/ IsWhitespace(line[idx + 1])
    \/ line[idx + 1] \in parser.option_value_announcer_chars

\* the code points of the line from the code-point index from up to the
\* first boundary at or after it
CodePointsUpToBoundary(from) ==
    LET boundary == CHOOSE e \in from..Len(line) :
                        /\ IsCodeBoundary(e)
                        /\ \A k \in from..(e - 1) : ~IsCodeBoundary(k)
    IN  SubSeq(line, from + 1, boundary)

\* C31: positions are counted in code points, not bytes: the start offset of
\* every emitted Option is the code-point index of its announcer, its code
\* is exactly the code points between the character after the announcer and
\* the boundary, and no parse is aborted by slicing the line, also when the
\* line holds characters of more than one byte.
C31_CodePoints ==
    /\ outcome.kind # "Panic"
    /\ \A i \in 1..Len(args) :
           args[i].kind = "Option" =>
               /\ args[i].line_char_index < Len(line)
               /\ line[args[i].line_char_index + 1] \in parser.option_announcer_chars
               /\ args[i].code = CodePointsUpToBoundary(args[i].line_char_index + 1)

-----------------------------------------------------------------------------
(* The escape char in the value of a Param *)

\* the character at the code-point index idx of the line is an escape char
\* in effect: it is the escape char and the character before it, from the
\* index from on, is not itself an escape char in effect
RECURSIVE IsActiveEscape(_, _)
IsActiveEscape(from, idx) ==
    /\ idx >= from
    /\ line[idx + 1] = parser.escape_char
    /\ ~IsActiveEscape(from, idx - 1)

\* the number of escape chars between the code-point indices from and to
\* (from included, to excluded) that stand behind an escape char in effect
EscapedEscapes(from, to) ==
    Cardinality({idx \in from..(to - 1) :
                    /\ line[idx + 1] = parser.escape_char
                    /\ IsActiveEscape(from, idx - 1)})

\* the number of escape chars in a text
EscapesIn(text) == Cardinality({k \in 1..Len(text) : text[k] = parser.escape_char})

\* the code-point index at which the argument of the result i ends: the
\* start of the next result, or the scan index for the last one
ExtentEnd(i) == IF i < Len(args) THEN args[i + 1].line_char_index ELSE char_idx

\* C32: with an escape char configured, the value of an emitted Param holds
\* an escape char only where its argument had the escape char behind an
\* escape char in effect; an escape char at the very start of an unquoted
\* param escapes the next character and is not copied into the value.
C32_EscapesOnlyWhenEscaped ==
    parser.escape_char # NoChar =>
        \A i \in 1..Len(args) :
            args[i].kind = "Param" =>
                EscapesIn(args[i].value_text)
                    <= EscapedEscapes(args[i].line_char_index, ExtentEnd(i))

-----------------------------------------------------------------------------
(* Termination *)

\* the number of calls of process_char that the dispatch of one character
\* makes: the call of the scan loop, and the calls the arm WaitOptionValue
\* makes on the same character, through begin_parsing_option_value when the
\* option must or may have a value, and directly after the option was
\* emitted without a value
RECURSIVE Dispatches(_, _, _, _, _)
Dispatches(self, st, ln, char_idx_, line_char) ==
    LET has_value == CanOptionHaveValueWithFirstChar(
                         self, st.ps, line_char \in self.option_value_announcer_chars)
        emitted == MatchOptionArg(
                       self, [st EXCEPT !.ps.current_option_value_may_be_param = FALSE], FALSE)
    IN  IF \/ st.ps.arg_parse_state # "InOption"
           \/ st.ps.option_parse_state # "WaitOptionValue"
           \/ IsWhitespace(line_char)
          THEN 1
          ELSE CASE has_value \in {"Must", "Possibly"} ->
                        1 + Dispatches(self,
                                       [st EXCEPT !.ps.value_bldr = <<>>,
                                                  !.ps.value_quoted = FALSE,
                                                  !.ps.option_parse_state = "InValue"],
                                       ln, char_idx_, line_char)
                 [] has_value = "MustNot" /\ emitted.status = "Ok" ->
                        1 + Dispatches(self, ThenNotInArg(emitted), ln, char_idx_, line_char)
                 [] OTHER -> 1

\* the scan loop is about to dispatch a character
AboutToDispatch == phase = "Scanning" /\ char_idx < Len(line)

\* the dispatches of the character the scan loop is at
DispatchesHere == Dispatches(parser, Frame, line, char_idx, line[char_idx + 1])

\* how far the call of parse has come
PhaseRank(p) ==
    CASE p = "Idle" -> 0
      [] p = "Scanning" -> 1
      [] p = "Finalizing" -> 2
      [] p = "Done" -> 3

\* every character is dispatched at most twice
AtMostTwoDispatches == AboutToDispatch => DispatchesHere <= 2

\* a step of parse never moves the scan index back, and it either moves the
\* scan index on or brings the call nearer to its return; the step after the
\* scan loop is the one finalization and parse returns with it
ProgressStep ==
    /\ char_idx' >= char_idx
    /\ char_idx' > char_idx \/ PhaseRank(phase') > PhaseRank(phase)
    /\ (phase = "Finalizing" \/ (phase = "Scanning" /\ char_idx = Len(line)))
           => phase' = "Done"

\* the scanning part of the claim, without how the call ends
C33_ScanProgress == [](AtMostTwoDispatches) /\ [][ProgressStep]_vars

\* C33: parse terminates on every finite line: the scan index never
\* decreases, every character is dispatched at most twice (once, and at most
\* once more in a new state), the scan loop is followed by exactly one
\* finalization, and every parse ends in a returned result sequence or in a
\* returned error.
C33_Terminates ==
    /\ [](AtMostTwoDispatches)
    /\ [](Returned => outcome.kind \in {"Ok", "Err"})
    /\ [][ProgressStep]_vars

\* a character is dispatched twice
C33_Replayed == AboutToDispatch /\ DispatchesHere = 2

====
